---------------------------- MODULE Spec2Model ----------------------------
(* A model of the WorkNode core of step-protocol (work-node.ts and the      *)
(* `worktree run` handler of cli.ts).                                       *)
(*                                                                          *)
(* Strings are sequences of tokens.  A token is a single character ("a",    *)
(* "|", " ", "\n", "7") or a literal word the code treats as a unit         *)
(* ("status:", "todo", "logs/").  Conversions (formatting, parsing,         *)
(* splitting, trimming) are computed on these sequences.                    *)
EXTENDS Integers, Sequences, FiniteSets, TLC

VARIABLES
    input,      \* arguments of the pure operation under check
    output,     \* its result (<<>> until the operation has been applied)
    node,       \* the WorkNode facade: owned plan and state, or not loaded
    files,      \* the node directory: PLAN.md, STATE.md, logs/*.md, temp files
    clock,      \* the wall clock read by new Date().toISOString()
    hist,       \* what the last facade operation returned or threw
    procs       \* the `worktree run` invocations: position and locals

vars == <<input, output, node, files, clock, hist, procs>>

-----------------------------------------------------------------------------
(* Bounds of the model.                                                     *)

MaxRows == 3        \* rows of a WorkState drawn as input of the step selection
MaxConsLen == 2     \* steps of a plan / rows of a state drawn for the consistency check
MaxRtRows == 2      \* rows of a WorkState written and parsed back

-----------------------------------------------------------------------------
(* Optional values: null is <<>>, a value v is <<v>>.                       *)

None == <<>>
Unused == <<>>                   \* a variable a specification does not use
Some(v) == <<v>>
IsSome(o) == Len(o) = 1
Get(o) == o[1]

RECURSIVE SeqsUpTo(_, _)
SeqsUpTo(S, n) ==
    IF n = 0 THEN {<<>>}
    ELSE LET shorter == SeqsUpTo(S, n - 1)
         IN  shorter \cup {Append(s, x) : s \in {t \in shorter : Len(t) = n - 1}, x \in S}

Range(s) == {s[i] : i \in 1..Len(s)}

-----------------------------------------------------------------------------
(* Characters and strings.                                                  *)

Digits == {"0", "1", "2", "3", "4", "5", "6", "7", "8", "9"}
Whitespace == {" ", "\n"}

DigitValue(c) ==
    CASE c = "0" -> 0 [] c = "1" -> 1 [] c = "2" -> 2 [] c = "3" -> 3
      [] c = "4" -> 4 [] c = "5" -> 5 [] c = "6" -> 6 [] c = "7" -> 7
      [] c = "8" -> 8 [] c = "9" -> 9

DigitChar(d) ==
    CASE d = 0 -> "0" [] d = 1 -> "1" [] d = 2 -> "2" [] d = 3 -> "3"
      [] d = 4 -> "4" [] d = 5 -> "5" [] d = 6 -> "6" [] d = 7 -> "7"
      [] d = 8 -> "8" [] d = 9 -> "9"

\* String.prototype.trim
RECURSIVE TrimLeft(_)
TrimLeft(s) ==
    IF s # <<>> /\ Head(s) \in Whitespace THEN TrimLeft(Tail(s)) ELSE s

RECURSIVE TrimRight(_)
TrimRight(s) ==
    IF s # <<>> /\ s[Len(s)] \in Whitespace
    THEN TrimRight(SubSeq(s, 1, Len(s) - 1)) ELSE s

Trim(s) == TrimRight(TrimLeft(s))

\* String.prototype.split(sep) for a one-token separator: the parts between
\* consecutive separators, always at least one part
Split(s, sep) ==
    LET seps == {i \in 1..Len(s) : s[i] = sep}
        cuts == seps \cup {0, Len(s) + 1}
        Cut(k) == CHOOSE c \in cuts : Cardinality({d \in cuts : d < c}) = k
    IN  [k \in 1..(Cardinality(seps) + 1) |-> SubSeq(s, Cut(k - 1) + 1, Cut(k) - 1)]

\* Array.prototype.join(sep)
RECURSIVE Join(_, _)
Join(parts, sep) ==
    IF parts = <<>> THEN <<>>
    ELSE IF Len(parts) = 1 THEN Head(parts)
         ELSE Head(parts) \o sep \o Join(Tail(parts), sep)

StartsWith(s, prefix) ==
    Len(s) >= Len(prefix) /\ SubSeq(s, 1, Len(prefix)) = prefix

\* the decimal value of a run of digits
RECURSIVE DecimalValue(_)
DecimalValue(s) ==
    IF s = <<>> THEN 0
    ELSE 10 * DecimalValue(SubSeq(s, 1, Len(s) - 1)) + DigitValue(s[Len(s)])

\* Number(string): whitespace is trimmed, "" is 0, a run of digits is its
\* value, anything else over the model's alphabet is NaN.
NaN == [nan |-> TRUE, val |-> 0]
Num(n) == [nan |-> FALSE, val |-> n]

Number(s) ==
    LET t == Trim(s)
    IN  IF \A i \in 1..Len(t) : t[i] \in Digits THEN Num(DecimalValue(t)) ELSE NaN

\* `${n}` for a non-negative integer
RECURSIVE NumberToString(_)
NumberToString(n) ==
    IF n < 10 THEN <<DigitChar(n)>>
    ELSE NumberToString(n \div 10) \o <<DigitChar(n % 10)>>

-----------------------------------------------------------------------------
(* The data model: StepIdentifier, PlanStep, StateRow.                      *)

StepStatus == {"todo", "in-progress", "blocked", "done", "superseded"}

PlanStep(phase, step, label, details) ==
    [phase |-> phase, step |-> step, label |-> label, details |-> details]

StateRow(phase, step, label, status, progressLog) ==
    [phase |-> phase, step |-> step, label |-> label,
     status |-> status, progressLog |-> progressLog]

\* the identity of a step
buildStepKey(identifier) == <<identifier.phase, identifier.step>>

-----------------------------------------------------------------------------
(* Step ordering and selection.                                             *)

parseStepSequence(step) ==
    LET segments == Split(step, ".")
    IN  [i \in 1..Len(segments) |->
            LET parsed == Number(segments[i])
            IN  IF parsed.nan THEN 0 ELSE parsed.val]

Max(a, b) == IF a >= b THEN a ELSE b

RECURSIVE compareParts(_, _, _, _)
compareParts(aParts, bParts, i, maxLength) ==
    IF i > maxLength THEN 0
    ELSE LET aValue == IF i <= Len(aParts) THEN aParts[i] ELSE 0
             bValue == IF i <= Len(bParts) THEN bParts[i] ELSE 0
         IN  IF aValue # bValue THEN aValue - bValue
             ELSE compareParts(aParts, bParts, i + 1, maxLength)

\* a faulty comparison: within a phase only the first segment is looked at
compareFirstSegment(a, b) ==
    IF a.phase # b.phase THEN a.phase - b.phase
    ELSE parseStepSequence(a.step)[1] - parseStepSequence(b.step)[1]

compareStepIdentifiers(a, b) ==
    IF a.phase # b.phase THEN a.phase - b.phase
    ELSE LET aParts == parseStepSequence(a.step)
             bParts == parseStepSequence(b.step)
         IN  compareParts(aParts, bParts, 1, Max(Len(aParts), Len(bParts)))

\* Array.prototype.sort(compareStepIdentifiers): a stable sort; an element is
\* inserted behind every element that does not sort after it.
RECURSIVE InsertSorted(_, _)
InsertSorted(sorted, x) ==
    IF sorted = <<>> THEN <<x>>
    ELSE IF compareStepIdentifiers(Head(sorted), x) <= 0
         THEN <<Head(sorted)>> \o InsertSorted(Tail(sorted), x)
         ELSE <<x>> \o sorted

RECURSIVE SortSteps(_)
SortSteps(s) ==
    IF s = <<>> THEN <<>>
    ELSE InsertSorted(SortSteps(SubSeq(s, 1, Len(s) - 1)), s[Len(s)])

\* entries.filter((entry) => entry.status === status)
RECURSIVE listByStatus(_, _)
listByStatus(entries, status) ==
    IF entries = <<>> THEN <<>>
    ELSE IF Head(entries).status = status
         THEN <<Head(entries)>> \o listByStatus(Tail(entries), status)
         ELSE listByStatus(Tail(entries), status)

\* a faulty selection: the earliest todo row wins over a row that is in progress
findNextTodoFirst(entries) ==
    LET sorted == SortSteps(listByStatus(entries, "todo"))
        inProgress == listByStatus(entries, "in-progress")
    IN  IF sorted # <<>> THEN Some(sorted[1])
        ELSE IF inProgress # <<>> THEN Some(inProgress[1]) ELSE None

\* a faulty selection: the first todo row in stored order, unsorted
findNextUnsorted(entries) ==
    LET inProgress == listByStatus(entries, "in-progress")
        todo == listByStatus(entries, "todo")
    IN  IF inProgress # <<>> THEN Some(inProgress[1])
        ELSE IF todo # <<>> THEN Some(todo[1]) ELSE None

\* a faulty selection: a blocked step is taken when nothing else is left
findNextOrBlocked(entries) ==
    LET inProgress == listByStatus(entries, "in-progress")
        sorted == SortSteps(listByStatus(entries, "todo"))
        blocked == listByStatus(entries, "blocked")
    IN  IF inProgress # <<>> THEN Some(inProgress[1])
        ELSE IF sorted # <<>> THEN Some(sorted[1])
        ELSE IF blocked # <<>> THEN Some(blocked[1]) ELSE None

\* StateRow | undefined, as an optional
findNextActionableStep(entries) ==
    LET inProgress == listByStatus(entries, "in-progress")
        sorted == SortSteps(listByStatus(entries, "todo"))
    IN  IF inProgress # <<>> THEN Some(inProgress[1])
        ELSE IF sorted # <<>> THEN Some(sorted[1]) ELSE None

-----------------------------------------------------------------------------
(* The consistency checker.  A thrown Error is a record naming its kind,    *)
(* the key and the labels its message embeds.                               *)

Ok == [kind |-> "ok", key |-> None, planLabel |-> None, stateLabel |-> None]
ConsistencyError(kind, key, planLabel, stateLabel) ==
    [kind |-> kind, key |-> Some(key), planLabel |-> planLabel, stateLabel |-> stateLabel]

\* the first index whose key repeats an earlier one, or 0
FirstDuplicate(items) ==
    LET dups == {i \in 1..Len(items) :
                    \E j \in 1..(i - 1) : buildStepKey(items[j]) = buildStepKey(items[i])}
    IN  IF dups = {} THEN 0 ELSE CHOOSE i \in dups : \A j \in dups : i <= j

\* Map.get(key) on a map built from items without duplicates
MapGet(items, key) ==
    LET hits == {i \in 1..Len(items) : buildStepKey(items[i]) = key}
    IN  IF hits = {} THEN None ELSE Some(items[CHOOSE i \in hits : TRUE])

\* the loop over planMap.entries(): missing entry, then label mismatch, per step
RECURSIVE CheckPlanEntries(_, _)
CheckPlanEntries(steps, entries) ==
    IF steps = <<>> THEN Ok
    ELSE LET step == Head(steps)
             key == buildStepKey(step)
             stateEntry == MapGet(entries, key)
         IN  IF ~IsSome(stateEntry)
             THEN ConsistencyError("missing-state-entry", key, Some(step.label), None)
             ELSE IF Get(stateEntry).label # step.label
                  THEN ConsistencyError("label-mismatch", key, Some(step.label),
                                        Some(Get(stateEntry).label))
                  ELSE CheckPlanEntries(Tail(steps), entries)

\* the loop over stateMap.entries()
RECURSIVE CheckStateEntries(_, _)
CheckStateEntries(entries, steps) ==
    IF entries = <<>> THEN Ok
    ELSE LET entry == Head(entries)
             key == buildStepKey(entry)
         IN  IF ~IsSome(MapGet(steps, key))
             THEN ConsistencyError("unexpected-state-entry", key, None, Some(entry.label))
             ELSE CheckStateEntries(Tail(entries), steps)

\* a faulty checker: the loop over the state's entries is left out
ensureConsistencyPlanSideOnly(steps, entries) ==
    IF FirstDuplicate(steps) # 0
    THEN ConsistencyError("duplicate", buildStepKey(steps[FirstDuplicate(steps)]), None, None)
    ELSE IF FirstDuplicate(entries) # 0
    THEN ConsistencyError("duplicate", buildStepKey(entries[FirstDuplicate(entries)]), None, None)
    ELSE CheckPlanEntries(steps, entries)

\* a faulty checker: a label mismatch is reported as a missing entry
ensureConsistencyWrongKind(steps, entries) ==
    LET r == ensureConsistencyPlanSideOnly(steps, entries)
    IN  IF r.kind = "ok" THEN CheckStateEntries(entries, steps)
        ELSE IF r.kind = "label-mismatch" THEN [r EXCEPT !.kind = "missing-state-entry"]
        ELSE r

ensurePlanStateConsistency(steps, entries) ==
    IF FirstDuplicate(steps) # 0
    THEN ConsistencyError("duplicate", buildStepKey(steps[FirstDuplicate(steps)]), None, None)
    ELSE IF FirstDuplicate(entries) # 0
    THEN ConsistencyError("duplicate", buildStepKey(entries[FirstDuplicate(entries)]), None, None)
    ELSE LET planSide == CheckPlanEntries(steps, entries)
         IN  IF planSide.kind # "ok" THEN planSide
             ELSE CheckStateEntries(entries, steps)

-----------------------------------------------------------------------------
(* PLAN.md as text: parsePlanLines.                                         *)

StepWords == {"Step", "step", "STEP"}       \* the word Step under the i flag

\* the longest prefix of s made of tokens in S
RECURSIVE TakeWhile(_, _)
TakeWhile(s, S) ==
    IF s # <<>> /\ Head(s) \in S THEN <<Head(s)>> \o TakeWhile(Tail(s), S) ELSE <<>>

Drop(s, n) == SubSeq(s, n + 1, Len(s))

\* STEP_DECLARATION_REGEX on a line: the captures <<phase, step, label>>, or <<>>
StepDeclarationMatch(line) ==
    LET t == TrimLeft(line)
        afterDash == IF t # <<>> /\ Head(t) = "-" THEN TrimLeft(Tail(t)) ELSE <<>>
        afterWord == IF afterDash # <<>> /\ Head(afterDash) \in StepWords
                     THEN Tail(afterDash) ELSE <<>>
        numbers == IF afterWord # <<>> /\ Head(afterWord) \in Whitespace
                   THEN TrimLeft(afterWord) ELSE <<>>
        phase == TakeWhile(numbers, Digits)
        afterPhase == Drop(numbers, Len(phase))
        step == IF afterPhase # <<>> /\ Head(afterPhase) = "."
                THEN TakeWhile(Tail(afterPhase), Digits \cup {"."}) ELSE <<>>
        afterStep == TrimLeft(Drop(afterPhase, Len(step) + 1))
        label == IF afterStep # <<>> /\ Head(afterStep) = ":" THEN Tail(afterStep) ELSE <<>>
        segments == Split(step, ".")
    IN  IF /\ phase # <<>>
           /\ step # <<>> /\ \A i \in 1..Len(segments) : segments[i] # <<>>
           /\ label # <<>>
        THEN <<phase, step, label>> ELSE <<>>

\* DETAIL_LINE_REGEX on a line: the capture, or <<>>.  With one blank behind
\* the dash the lookahead (?!Step) rejects a text starting with Step; with
\* more, \s+ backs off by one and the lookahead sees a blank.
DetailLineMatch(line) ==
    LET t == TrimLeft(line)
        afterDash == IF t # <<>> /\ Head(t) = "-" THEN Tail(t) ELSE <<>>
        blanks == TakeWhile(afterDash, Whitespace)
        text == Drop(afterDash, Len(blanks))
    IN  IF blanks = <<>> THEN <<>>
        ELSE IF text # <<>> /\ Head(text) \notin StepWords THEN <<text>>
        ELSE IF Len(blanks) >= 2 THEN << <<blanks[Len(blanks)]>> \o text >>
        ELSE <<>>

\* pushes the step under construction, with its details if it has any
PushCurrent(steps, current, detailBuffer) ==
    IF current = None THEN steps
    ELSE Append(steps, [Get(current) EXCEPT
                            !.details = IF detailBuffer # <<>> THEN Some(detailBuffer) ELSE None])

RECURSIVE parsePlanLinesFrom(_, _, _, _)
parsePlanLinesFrom(lines, steps, current, detailBuffer) ==
    IF lines = <<>> THEN PushCurrent(steps, current, detailBuffer)
    ELSE LET line == Head(lines)
             declaration == StepDeclarationMatch(line)
             detailMatch == DetailLineMatch(line)
         IN  IF declaration # <<>>
             THEN parsePlanLinesFrom(Tail(lines), PushCurrent(steps, current, detailBuffer),
                      Some(PlanStep(Number(declaration[1]).val, declaration[2],
                                    Trim(declaration[3]), None)),
                      <<>>)
             ELSE IF current # None /\ detailMatch # <<>>
                  THEN parsePlanLinesFrom(Tail(lines), steps, current,
                                          Append(detailBuffer, Trim(detailMatch[1])))
                  ELSE parsePlanLinesFrom(Tail(lines), steps, current, detailBuffer)

parsePlanLines(lines) == parsePlanLinesFrom(lines, <<>>, None, <<>>)

\* parsePlan on a file's content
parsePlanText(content) == parsePlanLines(Split(content, "\n"))

-----------------------------------------------------------------------------
(* STATE.md as text: writeState and parseStateRows.                         *)

NaNPhase == -1      \* Number(cell) of a phase cell that is not a number

canonicalLogName(identifier) ==
    <<"p">> \o NumberToString(identifier.phase) \o <<"-", "s">> \o identifier.step \o <<".md">>

\* a faulty relative path: the separators of the host are kept
canonicalLogRelativeNative(identifier) == <<"logs", "\\">> \o canonicalLogName(identifier)

\* canonicalLogPaths(...).relative: path.relative(root, logsDir/name) with "/"
canonicalLogRelative(identifier) == <<"logs", "/">> \o canonicalLogName(identifier)

StateHeaderLine ==
    <<"|", " ", "Phase", " ", "|", " ", "Step", " ", "|", " ", "Label", " ", "|", " ",
      "Status", " ", "|", " ", "Progress", " ", "Log", " ", "|">>
StateSeparatorLine ==
    <<"|", " ", "-----", " ", "|", " ", "----", " ", "|", " ", "-----", " ", "|", " ",
      "------", " ", "|", " ", "------------", " ", "|">>

\* `| ${phase} | ${step} | ${label} | ${status} | ${progressLog} |`
StateRowLine(entry) ==
    LET progressLog == IF IsSome(entry.progressLog) THEN Get(entry.progressLog) ELSE <<"-">>
    IN  <<"|", " ">> \o NumberToString(entry.phase) \o <<" ", "|", " ">> \o entry.step
        \o <<" ", "|", " ">> \o entry.label \o <<" ", "|", " ">> \o <<entry.status>>
        \o <<" ", "|", " ">> \o progressLog \o <<" ", "|">>

\* the text writeState hands to the file system
writeStateText(entries) ==
    Join(<<StateHeaderLine, StateSeparatorLine>>
            \o [i \in 1..Len(entries) |-> StateRowLine(entries[i])], <<"\n">>)
        \o <<"\n">>

\* STATE_ROW_REGEX on a raw line: the five captured cells, or <<>> without a
\* match.  The line starts and ends with "|" and holds exactly five cells of
\* one or more characters other than "|".
StateRowMatch(raw) ==
    LET parts == Split(raw, "|")
    IN  IF /\ Len(parts) = 7
           /\ parts[1] = <<>> /\ parts[7] = <<>>
           /\ \A i \in 2..6 : parts[i] # <<>>
        THEN SubSeq(parts, 2, 6) ELSE <<>>

ParsedRows(rows) == [ok |-> TRUE, rows |-> rows, badStatus |-> None]
ParseFailure(status) == [ok |-> FALSE, rows |-> <<>>, badStatus |-> Some(status)]

VALID_STATUSES == {<<s>> : s \in StepStatus}

RECURSIVE parseStateRowsFrom(_, _)
parseStateRowsFrom(lines, rows) ==
    IF lines = <<>> THEN ParsedRows(rows)
    ELSE LET raw == Head(lines)
             trimmed == Trim(raw)
             match == StateRowMatch(raw)
         IN  IF \/ trimmed = <<>>
                \/ StartsWith(trimmed, <<"|", " ", "Phase">>)
                \/ StartsWith(trimmed, <<"|", " ", "-----">>)
                \/ match = <<>>
             THEN parseStateRowsFrom(Tail(lines), rows)
             ELSE LET phase == Number(Trim(match[1]))
                      status == Trim(match[4])
                      progressLogCell == Trim(match[5])
                  IN  IF status \notin VALID_STATUSES THEN ParseFailure(status)
                      ELSE parseStateRowsFrom(Tail(lines),
                              Append(rows,
                                  StateRow(IF phase.nan THEN NaNPhase ELSE phase.val,
                                           Trim(match[2]), Trim(match[3]), status[1],
                                           IF progressLogCell = <<"-">> \/ progressLogCell = <<>>
                                           THEN None ELSE Some(progressLogCell))))

parseStateRows(lines) == parseStateRowsFrom(lines, <<>>)

\* parseState on a file's content: content.split(/\r?\n/)
parseStateText(content) == parseStateRows(Split(content, "\n"))

-----------------------------------------------------------------------------
(* Log files as text: the template of createStepLog and updateLogHeader.    *)

Min(S) == CHOOSE x \in S : \A y \in S : x <= y
MaxOf(S) == CHOOSE x \in S : \A y \in S : x >= y

\* the positions ^ matches under the m flag, before a character
LineStarts(c) == {i \in 1..Len(c) : i = 1 \/ c[i - 1] = "\n"}

\* the last position of the line that position i lies on (i - 1 if it is empty)
LineEnd(c, i) == Min({j \in i..Len(c) : c[j] = "\n"} \cup {Len(c) + 1}) - 1

\* /^<keyword>\s*.+$/m tried at line start i: the last position of the match,
\* or 0.  \s* runs greedily across line ends; .+ then takes the rest of the
\* line it stands on.  When the whitespace runs to the end of the text, \s*
\* backs off to the last blank that is not a line end.
KeywordMatchEnd(c, i) ==
    LET j == i + 1
        k == Min({q \in j..Len(c) : c[q] \notin Whitespace} \cup {Len(c) + 1}) - 1
        blanks == {m \in j..Len(c) : c[m] # "\n"}
    IN  IF k < Len(c) THEN LineEnd(c, k + 1)
        ELSE IF blanks = {} THEN 0 ELSE MaxOf(blanks)

NoMatch == [found |-> FALSE, start |-> 0, end |-> 0]

\* the leftmost match of /^<keyword>\s*.+$/m (STATUS_LINE_REGEX, COMPLETED_LINE_REGEX)
KeywordLineMatch(c, keyword) ==
    LET at == {i \in LineStarts(c) : c[i] = keyword /\ KeywordMatchEnd(c, i) # 0}
    IN  IF at = {} THEN NoMatch
        ELSE [found |-> TRUE, start |-> Min(at), end |-> KeywordMatchEnd(c, Min(at))]

\* the leftmost match of /^started:.*$/m
StartedLineMatch(c) ==
    LET at == {i \in LineStarts(c) : c[i] = "started:"}
    IN  IF at = {} THEN NoMatch
        ELSE [found |-> TRUE, start |-> Min(at), end |-> LineEnd(c, Min(at) + 1)]

\* String.prototype.replace(regex, replacement) for one match
ReplaceMatch(c, match, replacement) ==
    SubSeq(c, 1, match.start - 1) \o replacement \o SubSeq(c, match.end + 1, Len(c))

WithStatus(c, status) ==
    LET match == KeywordLineMatch(c, "status:")
    IN  IF match.found THEN ReplaceMatch(c, match, <<"status:", " ", status>>)
        ELSE <<"status:", " ", status, "\n">> \o c

WithCompleted(c, completed) ==
    LET match == KeywordLineMatch(c, "completed:")
        startedMatch == StartedLineMatch(c)
    IN  IF match.found THEN ReplaceMatch(c, match, <<"completed:", " ">> \o completed)
        ELSE IF startedMatch.found
             THEN SubSeq(c, 1, startedMatch.end) \o <<"\n", "completed:", " ">> \o completed
                    \o SubSeq(c, startedMatch.end + 1, Len(c))
             ELSE <<"completed:", " ">> \o completed \o <<"\n">> \o c

\* a faulty header update: the completed: line is left out
updatedLogStatusOnly(contents, updates) ==
    IF IsSome(updates.status) THEN WithStatus(contents, Get(updates.status)) ELSE contents

\* the content updateLogHeader writes back; updates = [status, completed], both optional
updatedLogContents(contents, updates) ==
    LET c1 == IF IsSome(updates.status) THEN WithStatus(contents, Get(updates.status))
              ELSE contents
    IN  IF IsSome(updates.completed) THEN WithCompleted(c1, Get(updates.completed)) ELSE c1

\* new Date().toISOString() at clock value t
Timestamp(t) == <<"T">> \o NumberToString(t)

\* the template createStepLog renders
LogTemplate(planStep, status, now) ==
    LET planDetails == IF IsSome(planStep.details) THEN Get(planStep.details) ELSE <<>>
        scope == IF planDetails # <<>> THEN Join(planDetails, <<" ", "&middot;", " ">>)
                 ELSE planStep.label
        planChecklist ==
            IF planDetails # <<>>
            THEN Join([i \in 1..Len(planDetails) |-> <<"-", " ", "[ ]", " ">> \o planDetails[i]],
                      <<"\n">>)
            ELSE <<"-", " ", "[ ]", " ", "TODO">>
    IN  Join(<< <<"#", " ", "Phase", " ">> \o NumberToString(planStep.phase)
                    \o <<" ", "-", " ", "Step", " ">> \o planStep.step \o <<":", " ">>
                    \o planStep.label,
                <<"status:", " ", status>>,
                <<"started:", " ">> \o Timestamp(now),
                <<>>,
                <<"## Scope">>,
                scope,
                <<>>,
                <<"## Plan">>,
                planChecklist,
                <<>>,
                <<"## Notes">>,
                <<>>,
                <<"## Outcomes">>,
                <<>> >>, <<"\n">>)

-----------------------------------------------------------------------------
(* The files of a WorkNode root, and the operations on them.  files.kinds   *)
(* tells what PLAN.md, STATE.md and logs are on disk; files.logs maps a log *)
(* file name to its content, None while the file does not exist.            *)

EntryKinds == {"file", "directory", "missing"}

\* the failure validateWorkNodeLayout records for one required entry, if any
EntryFailure(relative, expected, kind) ==
    IF kind = "missing" THEN {<<relative, "was not found">>}
    ELSE IF kind = "unreadable" THEN {<<relative, "failed to stat">>}
    ELSE IF kind # expected THEN {<<relative, "exists but is not a", expected>>}
    ELSE {}

\* requiredEntries, each checked against what is on disk
LayoutFailures(kinds) ==
    EntryFailure("PLAN.md", "file", kinds.plan)
    \cup EntryFailure("STATE.md", "file", kinds.state)
    \cup EntryFailure("logs", "directory", kinds.logs)

validateWorkNodeLayout(kinds) == LayoutFailures(kinds) = {}

\* WorkState.find / WorkPlan.find: the index of the first row with the
\* identity, 0 when there is none (a NaN phase is equal to nothing)
FindIndex(rows, phase, step) ==
    LET at == {i \in 1..Len(rows) :
                  rows[i].phase = phase /\ phase # NaNPhase /\ rows[i].step = step}
    IN  IF at = {} THEN 0 ELSE Min(at)

\* the fields a change may name; each is given (Some) or left out (None)
Changes(status, progressLog, label) ==
    [status |-> status, progressLog |-> progressLog, label |-> label]

\* a faulty assignment: the row is replaced, a progressLog that is not named
\* becomes null
AssignReplacing(entry, changes) ==
    [entry EXCEPT
        !.status = IF IsSome(changes.status) THEN Get(changes.status) ELSE @,
        !.progressLog = IF IsSome(changes.progressLog) THEN Get(changes.progressLog) ELSE None,
        !.label = IF IsSome(changes.label) THEN Get(changes.label) ELSE @]

\* Object.assign(entry, changes)
Assign(entry, changes) ==
    [entry EXCEPT
        !.status = IF IsSome(changes.status) THEN Get(changes.status) ELSE @,
        !.progressLog = IF IsSome(changes.progressLog) THEN Get(changes.progressLog) ELSE @,
        !.label = IF IsSome(changes.label) THEN Get(changes.label) ELSE @]

\* a faulty update: the changes reach every row of the step's phase
updateStateEntryInPhase(entries, phase, step, changes) ==
    LET i == FindIndex(entries, phase, step)
    IN  IF i = 0 THEN [ok |-> FALSE, entries |-> entries]
        ELSE [ok |-> TRUE,
              entries |-> [j \in 1..Len(entries) |->
                              IF entries[j].phase = phase THEN Assign(entries[j], changes)
                              ELSE entries[j]]]

\* updateStateEntry: ok = FALSE is the not-found error
updateStateEntry(entries, phase, step, changes) ==
    LET i == FindIndex(entries, phase, step)
    IN  IF i = 0 THEN [ok |-> FALSE, entries |-> entries]
        ELSE [ok |-> TRUE, entries |-> [entries EXCEPT ![i] = Assign(@, changes)]]

\* a faulty createStepLog: renders and writes the template whether or not the
\* log exists
createStepLogOverwriting(logs, planStep, status, now) ==
    [logs EXCEPT ![canonicalLogName(planStep)] = Some(LogTemplate(planStep, status, now))]

\* createStepLog: the log files after the call (it returns canonicalLogRelative)
createStepLog(logs, planStep, status, now) ==
    IF IsSome(logs[canonicalLogName(planStep)]) THEN logs
    ELSE [logs EXCEPT ![canonicalLogName(planStep)] = Some(LogTemplate(planStep, status, now))]

\* the createStepLog that creates exclusively: writeFile with flag wx writes
\* the template unless the path exists; EEXIST is caught and the path returned
createStepLogExclusive(logs, planStep, status, now) ==
    IF logs[canonicalLogName(planStep)] # None THEN logs
    ELSE [logs EXCEPT ![canonicalLogName(planStep)] = Some(LogTemplate(planStep, status, now))]

\* updateLogHeader on an existing log: the log files after the call
updateLogHeader(logs, name, updates) ==
    IF ~IsSome(updates.status) /\ ~IsSome(updates.completed) THEN logs
    ELSE [logs EXCEPT ![name] = Some(updatedLogContents(Get(@), updates))]

\* a WorkNode: the owned plan and state (the layout is the one root modelled)
WorkNode(plan, state) == [plan |-> plan, state |-> state]

Failed(error) == [ok |-> FALSE, error |-> error, node |-> Unused]
Loaded(n) == [ok |-> TRUE, error |-> "none", node |-> n]

\* WorkNode.load behind the layout validation: parse the plan, parse the
\* state, check them against each other, construct
LoadTexts(planText, stateText) ==
    LET plan == parsePlanText(planText)
        state == parseStateText(stateText)
    IN  IF ~state.ok THEN Failed("status")
        ELSE LET check == ensurePlanStateConsistency(plan, state.rows)
             IN  IF check.kind # "ok" THEN Failed(check.kind)
                 ELSE Loaded(WorkNode(plan, state.rows))

\* WorkNode.load
WorkNodeLoad(fs) ==
    IF ~validateWorkNodeLayout(fs.kinds) THEN Failed("layout")
    ELSE LoadTexts(fs.plan, fs.state)

\* WorkNode.loadFromLayout, which the CLI calls with a validated layout: the
\* rest of load
loadFromLayout(planText, stateText) == LoadTexts(planText, stateText)

\* a faulty refreshState: adopts the parsed state without the check
refreshStateUnchecked(n, fs) ==
    LET state == parseStateText(fs.state)
    IN  IF ~state.ok THEN Failed("status") ELSE Loaded(WorkNode(n.plan, state.rows))

\* WorkNode.refreshState
refreshState(n, fs) ==
    LET state == parseStateText(fs.state)
    IN  IF ~state.ok THEN Failed("status")
        ELSE LET check == ensurePlanStateConsistency(n.plan, state.rows)
             IN  IF check.kind # "ok" THEN Failed(check.kind)
                 ELSE Loaded(WorkNode(n.plan, state.rows))

-----------------------------------------------------------------------------
(* Inputs of the pure operations.                                           *)

Applied == output # Unused

\* step identifiers: (1,"2"), (1,"10"), (2,"1") and (1,"2.0"), which ties with (1,"2")
SelIds == { <<1, <<"2">> >>, <<1, <<"1", "0">> >>, <<2, <<"1">> >>, <<1, <<"2", ".", "0">> >> }
SelRows == {StateRow(id[1], id[2], <<"a">>, st, None) : id \in SelIds, st \in StepStatus}

ConsIds == { <<1, <<"2">> >>, <<1, <<"1", "0">> >>, <<2, <<"1">> >> }
ConsLabels == { <<"a">>, <<"b">> }
ConsSteps == {PlanStep(id[1], id[2], l, None) : id \in ConsIds, l \in ConsLabels}
ConsRows == {StateRow(id[1], id[2], l, "todo", None) : id \in ConsIds, l \in ConsLabels}

-----------------------------------------------------------------------------
(* SpecSelect: findNextActionableStep applied to every bounded WorkState.   *)

InitSelect ==
    /\ input \in {[entries |-> e] : e \in SeqsUpTo(SelRows, MaxRows)}
    /\ output = Unused
    /\ node = Unused /\ files = Unused /\ clock = 0 /\ hist = Unused /\ procs = Unused

ApplyFindNext ==
    /\ output = Unused
    /\ output' = <<findNextActionableStep(input.entries)>>
    /\ UNCHANGED <<input, node, files, clock, hist, procs>>

NextSelect == ApplyFindNext

SpecSelect == InitSelect /\ [][NextSelect]_vars

(* SpecConsistency: ensurePlanStateConsistency applied to every bounded     *)
(* (plan, state) pair.                                                      *)

InitConsistency ==
    /\ input \in {[steps |-> p, entries |-> e] :
                    p \in SeqsUpTo(ConsSteps, MaxConsLen), e \in SeqsUpTo(ConsRows, MaxConsLen)}
    /\ output = Unused
    /\ node = Unused /\ files = Unused /\ clock = 0 /\ hist = Unused /\ procs = Unused

ApplyEnsureConsistency ==
    /\ output = Unused
    /\ output' = <<ensurePlanStateConsistency(input.steps, input.entries)>>
    /\ UNCHANGED <<input, node, files, clock, hist, procs>>

NextConsistency == ApplyEnsureConsistency

SpecConsistency == InitConsistency /\ [][NextConsistency]_vars

(* SpecRoundTrip: writeState followed by parseState on every bounded        *)
(* WorkState.  Labels are free text: plain, with a blank, with a "|".       *)

RtIds == { <<1, <<"2">> >>, <<12, <<"2", ".", "1">> >> }
RtLabels == { <<"a">>, <<"a", " ", "b">>, <<"a", "|", "b">> }
RtRows ==
    {StateRow(id[1], id[2], l, st,
              IF logged THEN Some(canonicalLogRelative([phase |-> id[1], step |-> id[2]]))
              ELSE None) :
        id \in RtIds, l \in RtLabels, st \in StepStatus, logged \in BOOLEAN}

InitRoundTrip ==
    /\ input \in {[entries |-> e] : e \in SeqsUpTo(RtRows, MaxRtRows)}
    /\ output = Unused
    /\ files = Unused
    /\ node = Unused /\ clock = 0 /\ hist = Unused /\ procs = Unused

RtWriteState ==
    /\ files = Unused
    /\ files' = [state |-> writeStateText(input.entries)]
    /\ UNCHANGED <<input, output, node, clock, hist, procs>>

RtParseState ==
    /\ files # Unused /\ output = Unused
    /\ output' = <<parseStateText(files.state)>>
    /\ UNCHANGED <<input, files, node, clock, hist, procs>>

NextRoundTrip == RtWriteState \/ RtParseState

SpecRoundTrip == InitRoundTrip /\ [][NextRoundTrip]_vars

(* SpecHeader: updateLogHeader applied to bounded log contents: logs that    *)
(* createStepLog rendered and a worker then wrote Notes and Outcomes into.  *)

HeaderStep == PlanStep(1, <<"2">>, <<"a">>, None)

\* lines i..j of a text, joined again
TextLines(c, i, j) == Join(SubSeq(Split(c, "\n"), i, j), <<"\n">>)

\* the header as createStepLog wrote it (and a completed: line once the step
\* was completed); Notes and Outcomes as a worker filled them in
LogContents ==
    {Join(<<TextLines(LogTemplate(HeaderStep, status, 0), 1, 3)>> \o completedLine
            \o <<TextLines(LogTemplate(HeaderStep, status, 0), 4, 10),
                 <<"## Notes">>, note, <<"## Outcomes">>, outcome>>, <<"\n">>) :
        status \in {"in-progress", "blocked"},
        completedLine \in {<<>>, << <<"completed:", " ", "T", "0">> >>},
        note \in {<<>>, <<"-", " ", "x">>, <<"status:", " ", "x">>},
        outcome \in {<<>>, <<"x">>, <<"completed:", " ", "x">>, <<"started:", " ", "x">>}}

HeaderUpdates ==
    {[status |-> st, completed |-> co] :
        st \in {None, Some("done"), Some("blocked")}, co \in {None, Some(Timestamp(1))}}

InitHeader ==
    /\ input \in {[contents |-> c, updates |-> u] : c \in LogContents, u \in HeaderUpdates}
    /\ files = [log |-> input.contents]
    /\ output = Unused
    /\ node = Unused /\ clock = 0 /\ hist = Unused /\ procs = Unused

\* updateLogHeader: nothing is read or written when neither field is given
ApplyUpdateLogHeader ==
    /\ output = Unused
    /\ output' = <<"returned">>
    /\ files' = IF ~IsSome(input.updates.status) /\ ~IsSome(input.updates.completed)
                THEN files
                ELSE [files EXCEPT !.log = updatedLogContents(files.log, input.updates)]
    /\ UNCHANGED <<input, node, clock, hist, procs>>

NextHeader == ApplyUpdateLogHeader

SpecHeader == InitHeader /\ [][NextHeader]_vars

-----------------------------------------------------------------------------
(* Claims about step selection.                                             *)

FirstWithStatus(entries, status) ==
    entries[CHOOSE i \in 1..Len(entries) :
                /\ entries[i].status = status
                /\ \A j \in 1..(i - 1) : entries[j].status # status]

HasStatus(entries, status) == \E i \in 1..Len(entries) : entries[i].status = status

Row12 == StateRow(1, <<"2">>, <<"a">>, "todo", None)
Row110 == StateRow(1, <<"1", "0">>, <<"a">>, "todo", None)
Row21 == StateRow(2, <<"1">>, <<"a">>, "todo", None)

\* C2: whenever some row is in-progress, the step selected is the in-progress
\* row that comes first in the stored order, and so never a todo row.
C2_InProgressPrecedence ==
    (Applied /\ HasStatus(input.entries, "in-progress")) =>
        /\ output[1] = Some(FirstWithStatus(input.entries, "in-progress"))
        /\ Get(output[1]).status # "todo"

\* a todo row sorts strictly before the in-progress row that was selected
C2_Witness ==
    /\ Applied /\ HasStatus(input.entries, "in-progress")
    /\ \E i \in 1..Len(input.entries) :
          /\ input.entries[i].status = "todo"
          /\ compareStepIdentifiers(input.entries[i], Get(output[1])) < 0

\* C3: with no in-progress row and some todo row, the step selected is a todo
\* row that no todo row sorts before ((1,"2") before (1,"10") before (2,"1"));
\* with neither, no step is selected; a blocked, done or superseded row is
\* never selected.
C3_EarliestTodo ==
    Applied =>
        LET entries == input.entries
            r == output[1]
        IN  /\ (~HasStatus(entries, "in-progress") /\ HasStatus(entries, "todo")) =>
                 /\ IsSome(r) /\ Get(r) \in Range(entries) /\ Get(r).status = "todo"
                 /\ \A i \in 1..Len(entries) :
                       entries[i].status = "todo" =>
                           compareStepIdentifiers(Get(r), entries[i]) <= 0
                 /\ (Row12 \in Range(entries)) => Get(r).step \in {<<"2">>, <<"2", ".", "0">>}
                 /\ (Row110 \in Range(entries) /\ Get(r) = Row21) => FALSE
            /\ (~HasStatus(entries, "in-progress") /\ ~HasStatus(entries, "todo")) => r = None
            /\ IsSome(r) => Get(r).status \in {"in-progress", "todo"}

\* the three todo rows stored out of order, and (1,"2") selected
C3_Witness ==
    /\ Applied
    /\ input.entries = <<Row21, Row110, Row12>>
    /\ output[1] = Some(Row12)

\* C24: when two or more rows are in-progress, the selection surfaces the
\* ambiguity: what it returns is not one of the in-progress rows, as it
\* would be were there just that one.
C24_AmbiguitySurfaced ==
    (Applied /\ Cardinality({i \in 1..Len(input.entries) :
                                input.entries[i].status = "in-progress"}) >= 2) =>
        \A i \in 1..Len(input.entries) :
            input.entries[i].status = "in-progress" => output[1] # Some(input.entries[i])

\* the rows of a State in every stored order
Reorderings(entries) ==
    LET n == Len(entries)
    IN  {[i \in 1..n |-> entries[p[i]]] :
            p \in {q \in [1..n -> 1..n] : \A i, j \in 1..n : q[i] = q[j] => i = j}}

\* the plan that declares exactly the rows of a State
PlanDeclaring(entries) ==
    [i \in 1..Len(entries) |->
        PlanStep(entries[i].phase, entries[i].step, entries[i].label, None)]

PassesConsistency(entries) ==
    ensurePlanStateConsistency(PlanDeclaring(entries), entries).kind = "ok"

SelectedKey(result) == IF IsSome(result) THEN Some(buildStepKey(Get(result))) ELSE None

\* C30: for a State that passes the consistency check and has no in-progress
\* row, the identity of the selected row is the same for every permutation
\* of the stored rows.
C30_SelectionOrderFree ==
    (Applied /\ PassesConsistency(input.entries) /\ ~HasStatus(input.entries, "in-progress")) =>
        \A other \in Reorderings(input.entries) :
            SelectedKey(findNextActionableStep(other)) = SelectedKey(output[1])

\* what does hold: the selections of two stored orders are equal under the
\* comparator, and equal in identity when no two todo rows compare as 0
C30_SelectionOrderFreeUpToTies ==
    (Applied /\ PassesConsistency(input.entries) /\ ~HasStatus(input.entries, "in-progress")) =>
        \A other \in Reorderings(input.entries) :
            LET there == findNextActionableStep(other)
            IN  /\ IsSome(there) <=> IsSome(output[1])
                /\ IsSome(there) => compareStepIdentifiers(Get(there), Get(output[1])) = 0
                /\ (\A i, j \in 1..Len(input.entries) :
                        (i # j /\ input.entries[i].status = "todo"
                               /\ input.entries[j].status = "todo")
                        => compareStepIdentifiers(input.entries[i], input.entries[j]) # 0)
                    => SelectedKey(there) = SelectedKey(output[1])

-----------------------------------------------------------------------------
(* Claims about the consistency checker.                                    *)

Keys(items) == {buildStepKey(items[i]) : i \in 1..Len(items)}
RepeatsKey(items) ==
    \E i, j \in 1..Len(items) : i # j /\ buildStepKey(items[i]) = buildStepKey(items[j])

DuplicatePresent == RepeatsKey(input.steps) \/ RepeatsKey(input.entries)
MissingPresent == Keys(input.steps) \ Keys(input.entries) # {}
UnexpectedPresent == Keys(input.entries) \ Keys(input.steps) # {}
MismatchPresent ==
    \E i \in 1..Len(input.steps), j \in 1..Len(input.entries) :
        /\ buildStepKey(input.steps[i]) = buildStepKey(input.entries[j])
        /\ input.steps[i].label # input.entries[j].label

\* C5: the check succeeds exactly when no key is repeated in plan or state,
\* both have the same set of keys, and every shared key has identical labels.
C5_ConsistencyIff ==
    Applied =>
        (output[1].kind = "ok" <=>
            (~DuplicatePresent /\ ~MissingPresent /\ ~UnexpectedPresent /\ ~MismatchPresent))

\* a consistent pair of two steps was accepted
C5_Witness ==
    /\ Applied /\ output[1].kind = "ok"
    /\ Len(input.steps) = 2
    /\ input.entries[1].phase # input.steps[1].phase

\* C6: a reported error kind names a violation that is present (a label
\* mismatch names the plan label and the state label of its key), and a pair
\* with exactly one kind of violation is reported with that kind.
C6_ErrorKindMatches ==
    Applied =>
        LET e == output[1]
            present == {k \in {"duplicate", "missing-state-entry",
                               "label-mismatch", "unexpected-state-entry"} :
                           CASE k = "duplicate" -> DuplicatePresent
                             [] k = "missing-state-entry" -> MissingPresent
                             [] k = "label-mismatch" -> MismatchPresent
                             [] k = "unexpected-state-entry" -> UnexpectedPresent}
        IN  /\ e.kind # "ok" => e.kind \in present
            /\ Cardinality(present) = 1 => e.kind \in present
            /\ e.kind = "label-mismatch" =>
                  \E i \in 1..Len(input.steps), j \in 1..Len(input.entries) :
                      /\ buildStepKey(input.steps[i]) = Get(e.key)
                      /\ buildStepKey(input.entries[j]) = Get(e.key)
                      /\ e.planLabel = Some(input.steps[i].label)
                      /\ e.stateLabel = Some(input.entries[j].label)
                      /\ e.planLabel # e.stateLabel
            /\ e.kind = "missing-state-entry" => Get(e.key) \in Keys(input.steps) \ Keys(input.entries)
            /\ e.kind = "unexpected-state-entry" => Get(e.key) \in Keys(input.entries) \ Keys(input.steps)

\* label drift: the same key with label "a" in the plan and "b" in the state,
\* reported as a label mismatch naming both
C6_Witness ==
    /\ Applied
    /\ output[1].kind = "label-mismatch"
    /\ output[1].planLabel = Some(<<"a">>) /\ output[1].stateLabel = Some(<<"b">>)
    /\ Len(input.steps) = 1 /\ Len(input.entries) = 1

-----------------------------------------------------------------------------
(* Claims about the STATE.md round trip.                                    *)

\* C8: writing a WorkState with writeState and parsing the written file with
\* parseState yields the same rows in the same order, with identical phase,
\* step, label, status and progressLog.
C8_RoundTrip ==
    Applied => (output[1].ok /\ output[1].rows = input.entries)

\* the round trip on rows whose labels hold no "|"
C8_RoundTripPlainLabels ==
    (Applied /\ \A i \in 1..Len(input.entries) : "|" \notin Range(input.entries[i].label))
        => (output[1].ok /\ output[1].rows = input.entries)

-----------------------------------------------------------------------------
(* Claims about updateLogHeader.                                            *)

\* the text from the first "## Scope" heading on
LogBody(c) ==
    LET at == {i \in LineStarts(c) : c[i] = "## Scope"}
    IN  IF at = {} THEN <<>> ELSE SubSeq(c, Min(at), Len(c))

\* the header lines other than the status: and completed: lines
RECURSIVE OtherLines(_)
OtherLines(lines) ==
    IF lines = <<>> THEN <<>>
    ELSE IF Head(lines) # <<>> /\ Head(lines)[1] \in {"status:", "completed:"}
         THEN OtherLines(Tail(lines))
         ELSE <<Head(lines)>> \o OtherLines(Tail(lines))

LogHeaderOtherLines(c) ==
    OtherLines(Split(SubSeq(c, 1, Len(c) - Len(LogBody(c))), "\n"))

\* C10: updateLogHeader is header-only: the text from the "## Scope" heading
\* on is the same before and after, and in the header only the status: and
\* completed: lines are replaced or inserted.
C10_HeaderOnly ==
    Applied =>
        /\ LogBody(files.log) = LogBody(input.contents)
        /\ LogHeaderOtherLines(files.log) = LogHeaderOtherLines(input.contents)

-----------------------------------------------------------------------------
(* SpecCreateLog: createStepLog and WorkNode.createLogForStep called up to  *)
(* MaxCalls times for one step, while time passes between the calls.  The   *)
(* source has createStepLog in two variants, one that asks whether the log  *)
(* exists and writes through atomicWriteFile, one that creates exclusively; *)
(* input.variant tells which one the build has.  output lists the calls     *)
(* made, hist the log files after each of them.                             *)

MaxCalls == 2
MaxClock == 2

CreateRow == StateRow(1, <<"2">>, <<"a">>, "todo", None)
CreateSteps ==
    { PlanStep(1, <<"2">>, <<"a">>, None),
      PlanStep(1, <<"2">>, <<"a">>, Some(<< <<"d">>, <<"e", " ", "f">> >>)),
      PlanStep(12, <<"2", ".", "1">>, <<"a", " ", "b">>, None) }   \* no row in the state
CreateLogNames == {canonicalLogName(st) : st \in CreateSteps}

\* what may be at the step's log path before the first call: nothing, a log
\* an earlier run created, or a file a worker wrote by hand
ExistingLogs(planStep) == {None, Some(LogTemplate(planStep, "blocked", 0)), Some(<<"x", "\n">>)}

Call(op, status, ok, returned) ==
    [op |-> op, status |-> status, at |-> clock, ok |-> ok, returned |-> returned]

InitCreateLog ==
    /\ input \in {[planStep |-> st, existing |-> ex, variant |-> v] :
                     st \in CreateSteps, ex \in UNION {ExistingLogs(x) : x \in CreateSteps},
                     v \in {"rename", "exclusive"}}
    /\ input.existing \in ExistingLogs(input.planStep)
    /\ \E kind \in EntryKinds :
          /\ input.existing # None => kind = "directory"
          /\ files = [kinds |-> [plan |-> "file", state |-> "file", logs |-> kind],
                      logs |-> [n \in CreateLogNames |->
                                   IF n = canonicalLogName(input.planStep)
                                   THEN input.existing ELSE None]]
    /\ node = WorkNode(<<PlanStep(1, <<"2">>, <<"a">>, None)>>, <<CreateRow>>)
    /\ output = <<>> /\ hist = <<>> /\ clock = 0 /\ procs = Unused

\* fs.mkdir(layout.logsDir, { recursive: true }) fails when logs is a file
MkdirLogs(kinds) == [kinds EXCEPT !.logs = "directory"]

CallCreateStepLog ==
    /\ Len(output) < MaxCalls
    /\ \E status \in StepStatus :
          IF files.kinds.logs = "file"
          THEN /\ output' = Append(output, Call("createStepLog", status, FALSE, None))
               /\ hist' = Append(hist, files.logs)
               /\ UNCHANGED files
          ELSE /\ files' = [kinds |-> MkdirLogs(files.kinds),
                            logs |-> IF input.variant = "rename"
                                     THEN createStepLog(files.logs, input.planStep, status, clock)
                                     ELSE createStepLogExclusive(files.logs, input.planStep,
                                                                 status, clock)]
               /\ output' = Append(output, Call("createStepLog", status, TRUE,
                                                Some(canonicalLogRelative(input.planStep))))
               /\ hist' = Append(hist, files'.logs)
    /\ UNCHANGED <<input, node, clock, procs>>

\* createLogForStep (of the WorkNode class, which comes with the first
\* variant): createStepLog, then the row's progressLog; a step without a row
\* fails in updateStateEntry, after the log was created
CallCreateLogForStep ==
    /\ Len(output) < MaxCalls
    /\ input.variant = "rename"
    /\ \E status \in StepStatus :
          IF files.kinds.logs = "file"
          THEN /\ output' = Append(output, Call("createLogForStep", status, FALSE, None))
               /\ hist' = Append(hist, files.logs)
               /\ UNCHANGED <<files, node>>
          ELSE LET updated == updateStateEntry(node.state, input.planStep.phase,
                                  input.planStep.step,
                                  Changes(None, Some(Some(canonicalLogRelative(input.planStep))),
                                          None))
               IN  /\ files' = [kinds |-> MkdirLogs(files.kinds),
                                logs |-> createStepLog(files.logs, input.planStep, status, clock)]
                   /\ node' = [node EXCEPT !.state = updated.entries]
                   /\ output' = Append(output,
                         Call("createLogForStep", status, updated.ok,
                              IF updated.ok THEN Some(canonicalLogRelative(input.planStep))
                              ELSE None))
                   /\ hist' = Append(hist, files'.logs)
    /\ UNCHANGED <<input, clock, procs>>

Tick ==
    /\ clock < MaxClock
    /\ clock' = clock + 1
    /\ UNCHANGED <<input, output, node, files, hist, procs>>

NextCreateLog == CallCreateStepLog \/ CallCreateLogForStep \/ Tick

SpecCreateLog == InitCreateLog /\ [][NextCreateLog]_vars

-----------------------------------------------------------------------------
(* Claims about log creation.                                               *)

ExistingLogNames == {n \in DOMAIN files.logs : IsSome(files.logs[n])}

\* C9: log creation is idempotent.  Of two calls made in sequence for the
\* same step and layout, the second leaves the log files as the first left
\* them (content, started timestamp and status line included, whatever status
\* it was given); when both return, they return the same relative path and
\* exactly one log file exists, the one of the step.
C9_IdempotentCreate ==
    Len(output) = 2 =>
        /\ hist[2] = hist[1]
        /\ (output[1].ok /\ output[2].ok) =>
              /\ output[1].returned = output[2].returned
              /\ ExistingLogNames = {canonicalLogName(input.planStep)}

\* two calls, no log before the first, another status and a later time in the second
C9_Witness ==
    /\ Len(output) = 2
    /\ input.existing = None
    /\ output[1].ok /\ output[2].ok
    /\ output[1].status = "in-progress" /\ output[2].status = "blocked"
    /\ output[1].at < output[2].at
    /\ files.logs[canonicalLogName(input.planStep)]
          = Some(LogTemplate(input.planStep, "in-progress", output[1].at))

-----------------------------------------------------------------------------
(* SpecNode: a WorkNode root on disk and the WorkNode the latest load       *)
(* returned (node = Unused when it returned none).  The facade's operations  *)
(* run on the node; STATE.md is also edited from outside.  hist tells       *)
(* whether the latest operation was a load, a refreshState or another one,  *)
(* and whether it succeeded.                                                *)

NodeStepA == PlanStep(1, <<"1">>, <<"a">>, Some(<< <<"d">> >>))
NodeStepB == PlanStep(1, <<"2">>, <<"b">>, None)
ForeignStep == PlanStep(2, <<"1">>, <<"c">>, None)

DeclarationLine(st) ==
    <<"-", " ", "Step", " ">> \o NumberToString(st.phase) \o <<".">> \o st.step
        \o <<":", " ">> \o st.label

NodePlanTexts ==
    { Join(<< <<"#", " ", "Plan">>, DeclarationLine(NodeStepA), <<" ", " ", "-", " ", "d">>,
              DeclarationLine(NodeStepB), <<>> >>, <<"\n">>),
      Join(<< DeclarationLine(NodeStepA), DeclarationLine(NodeStepA), <<>> >>, <<"\n">>) }

RowOf(st, status) == StateRow(st.phase, st.step, st.label, status, None)

\* STATE.md as found on disk or as edited from outside: tables that match the
\* two-step plan, and tables with a drifted label, a missing row, an
\* unexpected row, a repeated row and a status outside the valid set
NodeStateTexts ==
    { writeStateText(<<RowOf(NodeStepA, "todo"), RowOf(NodeStepB, "todo")>>),
      writeStateText(<<RowOf(NodeStepA, "in-progress"), RowOf(NodeStepB, "todo")>>),
      writeStateText(<<RowOf(NodeStepA, "todo"), [RowOf(NodeStepB, "todo") EXCEPT !.label = <<"x">>]>>),
      writeStateText(<<RowOf(NodeStepA, "todo")>>),
      writeStateText(<<RowOf(NodeStepA, "todo"), RowOf(NodeStepB, "todo"), RowOf(ForeignStep, "todo")>>),
      writeStateText(<<RowOf(NodeStepA, "todo"), RowOf(NodeStepB, "todo"), RowOf(NodeStepB, "done")>>),
      writeStateText(<<RowOf(NodeStepA, "todo"), RowOf(NodeStepB, "wip")>>) }

NodeLayouts ==
    { [plan |-> "file", state |-> "file", logs |-> "directory"],
      [plan |-> "missing", state |-> "file", logs |-> "directory"],
      [plan |-> "file", state |-> "directory", logs |-> "directory"],
      [plan |-> "file", state |-> "file", logs |-> "missing"] }

NodeLogNames == {canonicalLogName(st) : st \in {NodeStepA, NodeStepB}}

\* the changes callers make through updateStateEntry themselves: a status
\* (createLogForStep makes the progressLog one)
NodeChanges == {Changes(Some(st), None, None) : st \in {"in-progress", "done"}}

NodeLogUpdates == {[status |-> Some("done"), completed |-> Some(Timestamp(1))]}

Op(name, ok) == [op |-> name, ok |-> ok]

InitNode ==
    /\ files \in {[kinds |-> k, plan |-> p, state |-> st, logs |-> [n \in NodeLogNames |-> None]] :
                     k \in NodeLayouts, p \in NodePlanTexts, st \in NodeStateTexts}
    /\ node = Unused
    /\ hist = Op("other", TRUE)
    /\ input = Unused /\ output = Unused /\ clock = 0 /\ procs = Unused

NodeLoad ==
    /\ \E result \in {WorkNodeLoad(files)} :
          /\ node' = result.node
          /\ hist' = Op("load", result.ok)
    /\ UNCHANGED <<input, output, files, clock, procs>>

NodeRefreshState ==
    /\ node # Unused
    /\ \E result \in {refreshState(node, files)} :
          /\ node' = IF result.ok THEN result.node ELSE node
          /\ hist' = Op("refreshState", result.ok)
    /\ UNCHANGED <<input, output, files, clock, procs>>

NodeGetNextActionableStep ==
    /\ node # Unused
    /\ hist' = Op("other", IsSome(findNextActionableStep(node.state)))
    /\ UNCHANGED <<input, output, node, files, clock, procs>>

NodeUpdateStateEntry ==
    /\ node # Unused
    /\ \E st \in Range(node.plan), changes \in NodeChanges :
          LET updated == updateStateEntry(node.state, st.phase, st.step, changes)
          IN  /\ node' = [node EXCEPT !.state = updated.entries]
              /\ hist' = Op("other", updated.ok)
    /\ UNCHANGED <<input, output, files, clock, procs>>

NodeCreateLogForStep ==
    /\ node # Unused
    /\ \E st \in Range(node.plan) :
          LET updated == updateStateEntry(node.state, st.phase, st.step,
                              Changes(None, Some(Some(canonicalLogRelative(st))), None))
          IN  /\ files' = [files EXCEPT !.logs = createStepLog(@, st, "in-progress", clock)]
              /\ node' = [node EXCEPT !.state = updated.entries]
              /\ hist' = Op("other", updated.ok)
    /\ UNCHANGED <<input, output, clock, procs>>

\* updateLogForStep: reading a log that does not exist fails
NodeUpdateLogForStep ==
    /\ node # Unused
    /\ \E st \in Range(node.plan), updates \in NodeLogUpdates :
          IF IsSome(files.logs[canonicalLogName(st)])
          THEN /\ files' = [files EXCEPT !.logs = updateLogHeader(@, canonicalLogName(st), updates)]
               /\ hist' = Op("other", TRUE)
          ELSE /\ hist' = Op("other", FALSE)
               /\ UNCHANGED files
    /\ UNCHANGED <<input, output, node, clock, procs>>

NodePersistState ==
    /\ node # Unused
    /\ files' = [files EXCEPT !.state = writeStateText(node.state)]
    /\ hist' = Op("other", TRUE)
    /\ UNCHANGED <<input, output, node, clock, procs>>

\* STATE.md rewritten by hand or by another tool
EditStateFile ==
    /\ files.kinds.state = "file"
    /\ \E text \in NodeStateTexts : files' = [files EXCEPT !.state = text]
    /\ hist' = Op("other", TRUE)
    /\ UNCHANGED <<input, output, node, clock, procs>>

NextNode ==
    \/ NodeLoad \/ NodeRefreshState \/ NodeGetNextActionableStep \/ NodeUpdateStateEntry
    \/ NodeCreateLogForStep \/ NodeUpdateLogForStep \/ NodePersistState \/ EditStateFile

SpecNode == InitNode /\ [][NextNode]_vars

-----------------------------------------------------------------------------
(* Claims about the WorkNode facade.                                        *)

\* every item of xs has exactly one item of ys with its (phase, step), and
\* that one carries the same label
MatchedOnce(xs, ys) ==
    \A i \in 1..Len(xs) :
        LET same == {j \in 1..Len(ys) : ys[j].phase = xs[i].phase /\ ys[j].step = xs[i].step}
        IN  Cardinality(same) = 1 /\ \A j \in same : ys[j].label = xs[i].label

PlanStateMatch(plan, state) == MatchedOnce(plan, state) /\ MatchedOnce(state, plan)

\* whether the files let a load through: the layout is valid, STATE.md
\* parses, and plan and state match
Loadable(fs) ==
    /\ fs.kinds = [plan |-> "file", state |-> "file", logs |-> "directory"]
    /\ parseStateText(fs.state).ok
    /\ PlanStateMatch(parsePlanText(fs.plan), parseStateText(fs.state).rows)

\* C7: the WorkNode a load returned, also after refreshState and after any
\* getNextActionableStep, createLogForStep, updateLogForStep, persistState
\* and status or progressLog update, has for every PlanStep exactly one
\* StateRow with its (phase, step) and label, and the other way round; a
\* load over files whose layout, parsing or consistency fails returns no
\* WorkNode.
C7_PlanStateInvariant ==
    /\ node # Unused => PlanStateMatch(node.plan, node.state)
    /\ (hist.op = "load" /\ ~Loadable(files)) => (node = Unused /\ ~hist.ok)

\* a node that was refreshed after its state had been changed, logged and persisted
C7_Witness ==
    /\ node # Unused
    /\ hist = Op("refreshState", TRUE)
    /\ \E i \in 1..Len(node.state) :
          node.state[i].status = "done" /\ IsSome(node.state[i].progressLog)

-----------------------------------------------------------------------------
(* SpecRun: `worktree run` invocations on one WorkNode root, one after      *)
(* another.  An invocation advances from await point to await point; each   *)
(* I/O call may fail and the process may crash anywhere.  atomicWriteFile   *)
(* is followed call by call: mkdir, the write of the temporary file (open,  *)
(* then the content, possibly in two parts), rename, and rm on failure.     *)
(* files.data maps a path to the file's content, None while it is absent.   *)
(* hist notes what the current invocation found and what it persisted.      *)

StatePath == <<"STATE.md">>

\* path.dirname, with the separator kept
Dirname(filePath) ==
    LET slashes == {i \in 1..Len(filePath) : filePath[i] = "/"}
    IN  IF slashes = {} THEN <<>> ELSE SubSeq(filePath, 1, MaxOf(slashes))

\* .tmp-<pid>-<time>-<random>: a name no other file has
tempName(pid) == <<".tmp-">> \o NumberToString(pid)

\* a faulty temporary path: the content is written over the target itself
inPlacePath(filePath, name) == filePath

\* path.join(directory, tempName)
tempPath(filePath, name) == Dirname(filePath) \o name

\* a faulty existence test: every path is taken to exist
fileExistsAlways(data, filePath) == TRUE

\* fileExists: stat succeeds (ENOENT is the answer no)
fileExists(data, filePath) == IsSome(data[filePath])

\* fs.rename
Rename(data, from, to) ==
    IF from = to THEN data ELSE [data EXCEPT ![to] = data[from], ![from] = None]

\* the part of the content on disk when a write has gone through halfway
FirstPart(contents) == SubSeq(contents, 1, Len(contents) \div 2)

\* a call of atomicWriteFile in flight: the previous content of the target
\* is kept for reference, then is where the caller goes on
Write(p, filePath, contents, then) ==
    [target |-> filePath, contents |-> contents, prev |-> files.data[filePath],
     temp |-> tempPath(filePath, tempName(p)), then |-> then]

RunStepIds == << <<1, <<"1", "0">> >>, <<1, <<"2">> >>, <<2, <<"1">> >> >>
RunLabels == << <<"a">>, <<"b">>, <<"c">> >>
RunSteps == [i \in 1..3 |-> PlanStep(RunStepIds[i][1], RunStepIds[i][2], RunLabels[i],
                                      IF i = 1 THEN Some(<< <<"d">> >>) ELSE None)]
RunPlanText ==
    Join(<< DeclarationLine(RunSteps[1]), <<" ", " ", "-", " ", "d">>,
            DeclarationLine(RunSteps[2]), DeclarationLine(RunSteps[3]), <<>> >>, <<"\n">>)

RunPids == {1}
RunLogPaths == {canonicalLogRelative(RunSteps[i]) : i \in 1..3}
RunPaths ==
    {StatePath} \cup RunLogPaths
    \cup {tempPath(f, tempName(p)) : f \in {StatePath} \cup RunLogPaths, p \in RunPids}

\* the row and the log a step has at the start, as earlier runs left them
RunRow(i, status) ==
    StateRow(RunSteps[i].phase, RunSteps[i].step, RunSteps[i].label, status,
             IF status = "todo" THEN None ELSE Some(canonicalLogRelative(RunSteps[i])))
RunLog(i, status) ==
    IF status = "todo" THEN None
    ELSE IF status = "in-progress" THEN Some(LogTemplate(RunSteps[i], "in-progress", 0))
    ELSE Some(updatedLogContents(LogTemplate(RunSteps[i], "in-progress", 0),
                                 [status |-> Some("done"), completed |-> Some(Timestamp(0))]))

InProgressCount(rows) == Cardinality({i \in 1..Len(rows) : rows[i].status = "in-progress"})

NotRunning == [pc |-> "idle", complete |-> FALSE, outcome |-> "none", node |-> Unused,
               key |-> None, write |-> None]

InitRun ==
    /\ \E statuses \in [1..3 -> {"todo", "in-progress", "done"}] :
          /\ Cardinality({i \in 1..3 : statuses[i] = "in-progress"}) <= 1
          /\ files = [kinds |-> [plan |-> "file", state |-> "file", logs |-> "directory"],
                      plan |-> RunPlanText,
                      data |-> [f \in RunPaths |->
                                   IF f = StatePath
                                   THEN Some(writeStateText([i \in 1..3 |-> RunRow(i, statuses[i])]))
                                   ELSE IF \E i \in 1..3 : f = canonicalLogRelative(RunSteps[i])
                                   THEN RunLog(CHOOSE i \in 1..3 : f = canonicalLogRelative(RunSteps[i]),
                                               statuses[CHOOSE i \in 1..3 :
                                                            f = canonicalLogRelative(RunSteps[i])])
                                   ELSE None]]
    /\ procs = [p \in RunPids |-> NotRunning]
    /\ input = Unused /\ output = Unused /\ node = Unused /\ hist = Unused /\ clock = 0

\* what is noted of the invocation under way or of the last one: the files
\* it found, its --complete option and the contents of STATE.md its renames
\* put in place, in order
Invocation(before, complete, persisted) ==
    [before |-> before, complete |-> complete, persisted |-> persisted]

\* process p leaves handleRun: its memory is gone, the outcome is noted
Exit(p, outcome) ==
    procs' = [procs EXCEPT ![p] = [NotRunning EXCEPT !.outcome = outcome, !.write = procs[p].write]]

Goto(p, pc) == procs' = [procs EXCEPT ![p].pc = pc]

\* the step the invocation selected, in the plan and in the state
SelectedStep(p) ==
    procs[p].node.plan[FindIndex(procs[p].node.plan, Get(procs[p].key)[1], Get(procs[p].key)[2])]
SelectedLog(p) == canonicalLogRelative(SelectedStep(p))

\* handleRun is entered: the options are parsed
RunStart ==
    \E p \in DOMAIN procs, complete \in BOOLEAN :
        /\ procs[p].pc = "idle"
        /\ \A q \in DOMAIN procs : procs[q].pc = "idle"
        /\ procs' = [procs EXCEPT ![p] = [NotRunning EXCEPT !.pc = "validate",
                                                            !.complete = complete,
                                                            !.outcome = "running"]]
        /\ hist' = Invocation(files.data, complete, <<>>)
        /\ UNCHANGED <<input, output, node, files, clock>>

RunValidate ==
    \E p \in DOMAIN procs :
        /\ procs[p].pc = "validate"
        /\ IF validateWorkNodeLayout(files.kinds) THEN Goto(p, "load") ELSE Exit(p, "failed")
        /\ UNCHANGED <<input, output, node, files, clock, hist>>

\* loadFromLayout, getNextActionableStep, plan.find; createLogForStep is
\* entered and createStepLog calls mkdir
RunLoad ==
    \E p \in DOMAIN procs :
        /\ procs[p].pc = "load"
        /\ \E result \in {loadFromLayout(files.plan, Get(files.data[StatePath]))} :
              IF ~result.ok THEN Exit(p, "failed")
              ELSE \E actionable \in {findNextActionableStep(result.node.state)} :
                      IF actionable = None THEN Exit(p, "no-step")
                      ELSE IF FindIndex(result.node.plan, Get(actionable).phase,
                                        Get(actionable).step) = 0
                           THEN Exit(p, "failed")
                           ELSE procs' = [procs EXCEPT ![p].pc = "log-mkdir",
                                                       ![p].node = result.node,
                                                       ![p].key = Some(buildStepKey(Get(actionable)))]
        /\ UNCHANGED <<input, output, node, files, clock, hist>>

\* createStepLog: mkdir returned, fileExists calls stat
RunLogMkdir ==
    \E p \in DOMAIN procs :
        /\ procs[p].pc = "log-mkdir"
        /\ Goto(p, "log-stat")
        /\ UNCHANGED <<input, output, node, files, clock, hist>>

\* createStepLog: stat returned; the log exists and createStepLog returns, or
\* the template is rendered and atomicWriteFile is entered
RunLogStat ==
    \E p \in DOMAIN procs :
        /\ procs[p].pc = "log-stat"
        /\ IF fileExists(files.data, SelectedLog(p)) THEN Goto(p, "log-created")
           ELSE procs' = [procs EXCEPT
                    ![p].pc = "w-mkdir",
                    ![p].write = Some(Write(p, SelectedLog(p),
                                            LogTemplate(SelectedStep(p), "in-progress", clock),
                                            "log-created"))]
        /\ UNCHANGED <<input, output, node, files, clock, hist>>

\* createLogForStep sets the row's progressLog; handleRun marks the row
\* in-progress unless it is; persistState enters writeState and atomicWriteFile
RunMarkInProgress ==
    \E p \in DOMAIN procs :
        /\ procs[p].pc = "log-created"
        /\ \E logged \in {updateStateEntry(procs[p].node.state, Get(procs[p].key)[1],
                              Get(procs[p].key)[2],
                              Changes(None, Some(Some(SelectedLog(p))), None))} :
              IF ~logged.ok THEN Exit(p, "failed")
              ELSE \E marked \in
                       {IF logged.entries[FindIndex(logged.entries, Get(procs[p].key)[1],
                                                    Get(procs[p].key)[2])].status # "in-progress"
                        THEN updateStateEntry(logged.entries, Get(procs[p].key)[1],
                                 Get(procs[p].key)[2], Changes(Some("in-progress"), None, None))
                        ELSE logged} :
                      procs' = [procs EXCEPT
                          ![p].pc = "w-mkdir",
                          ![p].node.state = marked.entries,
                          ![p].write = Some(Write(p, StatePath, writeStateText(marked.entries),
                                                  "persisted1"))]
        /\ UNCHANGED <<input, output, node, files, clock, hist>>

\* atomicWriteFile: mkdir returned, writeFile opens the temporary file
WriteMkdir ==
    \E p \in DOMAIN procs :
        /\ procs[p].pc = "w-mkdir"
        /\ Goto(p, "w-open")
        /\ UNCHANGED <<input, output, node, files, clock, hist>>

\* writeFile: the temporary file is created empty (flag w truncates)
WriteOpen ==
    \E p \in DOMAIN procs :
        /\ procs[p].pc = "w-open"
        /\ files' = [files EXCEPT !.data[Get(procs[p].write).temp] = Some(<<>>)]
        /\ Goto(p, "w-write")
        /\ UNCHANGED <<input, output, node, clock, hist>>

\* writeFile: the content reaches the file, at once or a first part first
WriteContent ==
    \E p \in DOMAIN procs :
        /\ procs[p].pc = "w-write"
        /\ \/ /\ files.data[Get(procs[p].write).temp] = Some(<<>>)
              /\ files' = [files EXCEPT !.data[Get(procs[p].write).temp] =
                                            Some(FirstPart(Get(procs[p].write).contents))]
              /\ UNCHANGED procs
           \/ /\ files' = [files EXCEPT !.data[Get(procs[p].write).temp] =
                                            Some(Get(procs[p].write).contents)]
              /\ Goto(p, "w-rename")
        /\ UNCHANGED <<input, output, node, clock, hist>>

\* fs.rename(tempPath, filePath); atomicWriteFile returns to its caller
WriteRename ==
    \E p \in DOMAIN procs :
        /\ procs[p].pc = "w-rename"
        /\ files' = [files EXCEPT !.data = Rename(@, Get(procs[p].write).temp,
                                                  Get(procs[p].write).target)]
        /\ Goto(p, Get(procs[p].write).then)
        /\ hist' = IF Get(procs[p].write).target = StatePath
                   THEN [hist EXCEPT !.persisted = Append(@, files.data[Get(procs[p].write).temp])]
                   ELSE hist
        /\ UNCHANGED <<input, output, node, clock>>

\* the catch block: rm with force, its own failure swallowed; the error is
\* thrown on and handleRun rejects
WriteCleanup ==
    \E p \in DOMAIN procs :
        /\ procs[p].pc = "w-rm"
        /\ \/ files' = [files EXCEPT !.data[Get(procs[p].write).temp] = None]
           \/ UNCHANGED files
        /\ Exit(p, "failed")
        /\ UNCHANGED <<input, output, node, clock, hist>>

\* the state was persisted: without --complete handleRun reports and
\* returns; with it updateLogForStep enters updateLogHeader, which reads the log
RunAfterPersist ==
    \E p \in DOMAIN procs :
        /\ procs[p].pc = "persisted1"
        /\ IF procs[p].complete THEN Goto(p, "log-read") ELSE Exit(p, "ok")
        /\ UNCHANGED <<input, output, node, files, clock, hist>>

\* updateLogHeader: readFile returned, the header is rewritten in memory and
\* atomicWriteFile is entered
RunLogRead ==
    \E p \in DOMAIN procs :
        /\ procs[p].pc = "log-read"
        /\ IF ~IsSome(files.data[SelectedLog(p)]) THEN Exit(p, "failed")
           ELSE procs' = [procs EXCEPT
                    ![p].pc = "w-mkdir",
                    ![p].write = Some(Write(p, SelectedLog(p),
                        updatedLogContents(Get(files.data[SelectedLog(p)]),
                            [status |-> Some("done"), completed |-> Some(Timestamp(clock))]),
                        "log-updated"))]
        /\ UNCHANGED <<input, output, node, files, clock, hist>>

\* handleRun marks the row done; persistState enters writeState and atomicWriteFile
RunMarkDone ==
    \E p \in DOMAIN procs :
        /\ procs[p].pc = "log-updated"
        /\ \E marked \in {updateStateEntry(procs[p].node.state, Get(procs[p].key)[1],
                              Get(procs[p].key)[2], Changes(Some("done"), None, None))} :
              IF ~marked.ok THEN Exit(p, "failed")
              ELSE procs' = [procs EXCEPT
                       ![p].pc = "w-mkdir",
                       ![p].node.state = marked.entries,
                       ![p].write = Some(Write(p, StatePath, writeStateText(marked.entries),
                                               "persisted2"))]
        /\ UNCHANGED <<input, output, node, files, clock, hist>>

\* the done state was persisted: handleRun reports and returns
RunFinish ==
    \E p \in DOMAIN procs :
        /\ procs[p].pc = "persisted2"
        /\ Exit(p, "ok")
        /\ UNCHANGED <<input, output, node, files, clock, hist>>

\* an I/O call fails: inside the try block of atomicWriteFile the catch
\* block is entered, anywhere else the error ends handleRun
RunIOFailure ==
    \E p \in DOMAIN procs :
        /\ \/ /\ procs[p].pc \in {"w-open", "w-write", "w-rename"}
              /\ Goto(p, "w-rm")
           \/ /\ procs[p].pc \in {"validate", "load", "log-mkdir", "log-stat", "w-mkdir", "log-read"}
              /\ Exit(p, "failed")
        /\ UNCHANGED <<input, output, node, files, clock, hist>>

\* the process dies between two calls; what is on disk stays as it is
RunCrash ==
    \E p \in DOMAIN procs :
        /\ procs[p].pc # "idle"
        /\ Exit(p, "crashed")
        /\ UNCHANGED <<input, output, node, files, clock, hist>>

NextRun ==
    \/ RunStart \/ RunValidate \/ RunLoad \/ RunLogMkdir \/ RunLogStat \/ RunMarkInProgress
    \/ WriteMkdir \/ WriteOpen \/ WriteContent \/ WriteRename \/ WriteCleanup
    \/ RunAfterPersist \/ RunLogRead \/ RunMarkDone \/ RunFinish
    \/ RunIOFailure \/ RunCrash

SpecRun == InitRun /\ [][NextRun]_vars

-----------------------------------------------------------------------------
(* Claims about atomic writes and about `worktree run`.                     *)

\* C1: a write of STATE.md or of a log through atomicWriteFile leaves at the
\* target path, at every point of the write and after a crash or an I/O
\* failure in it, the complete previous content (no file when there was none)
\* or the complete new content, never a part of it.
C1_AtomicWrite ==
    \A p \in DOMAIN procs :
        IsSome(procs[p].write) =>
            files.data[Get(procs[p].write).target]
                \in {Get(procs[p].write).prev, Some(Get(procs[p].write).contents)}

\* a process crashed while half of a new STATE.md was in its temporary file
C1_Witness ==
    \E p \in DOMAIN procs :
        /\ procs[p].outcome = "crashed"
        /\ IsSome(procs[p].write)
        /\ Get(procs[p].write).target = StatePath
        /\ files.data[Get(procs[p].write).temp] = Some(FirstPart(Get(procs[p].write).contents))
        /\ files.data[StatePath] = Get(procs[p].write).prev
        /\ Get(procs[p].write).prev # Some(Get(procs[p].write).contents)

\* the rows STATE.md holds on disk
DiskRows == parseStateText(Get(files.data[StatePath])).rows

\* C4: over any sequence of `worktree run` invocations, with or without
\* --complete, made one after another from a state with at most one
\* in-progress row, the State in memory and STATE.md on disk each hold at
\* most one row with status in-progress.
C4_SingleInProgress ==
    /\ InProgressCount(DiskRows) <= 1
    /\ \A p \in DOMAIN procs :
          procs[p].node # Unused => InProgressCount(procs[p].node.state) <= 1

\* an invocation has persisted a step as in-progress next to a step that is done
C4_Witness ==
    /\ \E i, j \in 1..Len(DiskRows) :
          /\ DiskRows[i].status = "done" /\ DiskRows[i].progressLog # None
          /\ DiskRows[j].status = "in-progress"
          /\ files.data[canonicalLogRelative(DiskRows[i])]
                = RunLog(CHOOSE k \in 1..3 : RunSteps[k].step = DiskRows[i].step, "done")
    /\ \E p \in DOMAIN procs :
          /\ procs[p].pc = "persisted1"
          /\ InProgressCount(procs[p].node.state) = 1

\* the lines of a log above its "## Scope" heading
LogHeaderLines(c) == Range(Split(SubSeq(c, 1, Len(c) - Len(LogBody(c))), "\n"))

\* the header has a status: line and it names this status
HeaderStatusIs(c, status) ==
    /\ \E line \in LogHeaderLines(c) : line # <<>> /\ line[1] = "status:"
    /\ \A line \in LogHeaderLines(c) :
          (line # <<>> /\ line[1] = "status:") => line = <<"status:", " ", status>>

HeaderHasCompleted(c) ==
    \E line \in LogHeaderLines(c) : Len(line) > 2 /\ line[1] = "completed:"

\* the rows of a STATE.md content, and among them the row of a step
RowsOf(contents) == parseStateText(contents).rows
RowFor(rows, identifier) ==
    rows[CHOOSE i \in 1..Len(rows) : buildStepKey(rows[i]) = buildStepKey(identifier)]

\* the step that was next actionable when the invocation started
StartActionable == findNextActionableStep(RowsOf(Get(hist.before[StatePath])))

\* the last invocation has left handleRun with this outcome
Returned(outcome) ==
    hist # Unused /\ \A p \in DOMAIN procs : procs[p].pc = "idle" /\ procs[p].outcome = outcome

C18_LogInProgressAfterRun ==
    (Returned("ok") /\ ~hist.complete) =>
        LET S == Get(StartActionable)
        IN  /\ RowFor(DiskRows, S).status = "in-progress"
            /\ files.data[canonicalLogRelative(S)] # None
            /\ HeaderStatusIs(Get(files.data[canonicalLogRelative(S)]), "in-progress")

\* what does hold: the same when the invocation found no log for the step
C18_LogInProgressWhenCreated ==
    (Returned("ok") /\ ~hist.complete
        /\ hist.before[canonicalLogRelative(Get(StartActionable))] = None) =>
        LET S == Get(StartActionable)
        IN  /\ RowFor(DiskRows, S).status = "in-progress"
            /\ files.data[canonicalLogRelative(S)] # None
            /\ HeaderStatusIs(Get(files.data[canonicalLogRelative(S)]), "in-progress")

\* C19: at every point during and after `worktree run` invocations, a crash
\* or a failure at any call included, every row of STATE.md on disk whose
\* status is in-progress or done, and every row with a Progress Log, has its
\* log logs/p<phase>-s<step>.md on disk.
C19_LoggedRowsHaveLogs ==
    LET rows == DiskRows
    IN  \A i \in 1..Len(rows) :
            (rows[i].status \in {"in-progress", "done"} \/ rows[i].progressLog # None)
                => files.data[canonicalLogRelative(rows[i])] # None

\* a crash has hit between the creation of a step's log and the rename that
\* puts the in-progress row in place
C19_Witness ==
    /\ \E p \in DOMAIN procs :
          /\ procs[p].outcome = "crashed"
          /\ IsSome(procs[p].write) /\ Get(procs[p].write).target = StatePath
    /\ hist.persisted = <<>>
    /\ StartActionable # None /\ Get(StartActionable).status = "todo"
    /\ hist.before[canonicalLogRelative(Get(StartActionable))] = None
    /\ files.data[canonicalLogRelative(Get(StartActionable))] # None
    /\ RowFor(DiskRows, Get(StartActionable)).status = "todo"

-----------------------------------------------------------------------------
(* SpecLayout: validateWorkNodeLayout and validateWorkNodeLayoutSync on one *)
(* root.  The non-blocking validator starts a stat for each required entry  *)
(* and the stats return in any order, each pushing its failure; the         *)
(* blocking one goes through the entries in order.  procs holds the stats   *)
(* still out, hist the failures pushed so far, output the two results.      *)

\* what stat finds at a path: a file, a directory, something else (a socket,
\* a device), nothing (ENOENT), or an error other than ENOENT
StatKinds == EntryKinds \cup {"other", "unreadable"}

requiredEntries ==
    << [name |-> "plan", expected |-> "file", relative |-> "PLAN.md"],
       [name |-> "state", expected |-> "file", relative |-> "STATE.md"],
       [name |-> "logs", expected |-> "directory", relative |-> "logs"] >>

Layout(root) ==
    [root |-> root, planPath |-> root \o <<"/", "PLAN.md">>,
     statePath |-> root \o <<"/", "STATE.md">>, logsDir |-> root \o <<"/", "logs">>]

\* a faulty push: only a first failure is recorded
RecordFirstOnly(failures, found) == IF failures # <<>> THEN failures ELSE failures \o found

\* failures.push for what one entry's check found (nothing, or one failure)
RecordFailure(failures, found) == failures \o found

\* the check of one entry, as both validators make it: the failure as a list
CheckEntry(entry, kinds) ==
    LET found == EntryFailure(entry.relative, entry.expected, kinds[entry.name])
    IN  IF found = {} THEN <<>> ELSE <<CHOOSE f \in found : TRUE>>

\* the end of both validators: the layout, or the aggregate error
Validated(root, failures) ==
    IF failures # <<>> THEN [ok |-> FALSE, layout |-> None, failures |-> failures]
    ELSE [ok |-> TRUE, layout |-> Some(Layout(root)), failures |-> <<>>]

RECURSIVE SyncFailures(_, _, _)
SyncFailures(entries, kinds, failures) ==
    IF entries = <<>> THEN failures
    ELSE SyncFailures(Tail(entries), kinds,
                      RecordFailure(failures, CheckEntry(Head(entries), kinds)))

\* a faulty blocking validator: it stops at the first entry that fails
validateSyncFirstFailure(root, kinds) ==
    LET failures == SyncFailures(requiredEntries, kinds, <<>>)
    IN  Validated(root, IF failures = <<>> THEN <<>> ELSE <<failures[1]>>)

validateWorkNodeLayoutSync(root, kinds) ==
    Validated(root, SyncFailures(requiredEntries, kinds, <<>>))

LayoutRoots == { <<"/", "r">>, <<"/", "r", "/", "n">> }

InitLayout ==
    /\ input \in {[root |-> r] : r \in LayoutRoots}
    /\ files \in {[kinds |-> k] : k \in [{"plan", "state", "logs"} -> StatKinds]}
    /\ procs = 1..Len(requiredEntries)
    /\ hist = <<>>
    /\ output = [async |-> None, sync |-> None]
    /\ node = Unused /\ clock = 0

\* one of the stats of Promise.all returns and its callback runs
StatReturns ==
    /\ \E i \in procs :
          /\ procs' = procs \ {i}
          /\ hist' = RecordFailure(hist, CheckEntry(requiredEntries[i], files.kinds))
    /\ UNCHANGED <<input, output, node, files, clock>>

\* Promise.all has settled: validateWorkNodeLayout returns or throws
ValidateSettles ==
    /\ procs = {}
    /\ output.async = None
    /\ output' = [output EXCEPT !.async = Some(Validated(input.root, hist))]
    /\ UNCHANGED <<input, node, files, clock, hist, procs>>

ValidateSync ==
    /\ output.sync = None
    /\ output' = [output EXCEPT !.sync = Some(validateWorkNodeLayoutSync(input.root, files.kinds))]
    /\ UNCHANGED <<input, node, files, clock, hist, procs>>

NextLayout == StatReturns \/ ValidateSettles \/ ValidateSync

SpecLayout == InitLayout /\ [][NextLayout]_vars

-----------------------------------------------------------------------------
(* Claims about layout validation.                                          *)

\* the required entries that are not on disk as what they have to be
ViolatedEntries ==
    {i \in 1..Len(requiredEntries) : files.kinds[requiredEntries[i].name] # requiredEntries[i].expected}

ReasonsNaming(failures, relative) == {j \in 1..Len(failures) : failures[j][1] = relative}

\* C11: validateWorkNodeLayout succeeds exactly when PLAN.md is a file,
\* STATE.md is a file and logs is a directory; otherwise its one error lists
\* exactly one reason for every violated entry and none for the others.
C11_LayoutAggregate ==
    IsSome(output.async) =>
        /\ Get(output.async).ok <=> ViolatedEntries = {}
        /\ \A i \in 1..Len(requiredEntries) :
              Cardinality(ReasonsNaming(Get(output.async).failures, requiredEntries[i].relative))
                 = IF i \in ViolatedEntries THEN 1 ELSE 0

\* a root without PLAN.md and without logs: both are reported, logs first
C11_Witness ==
    /\ IsSome(output.async)
    /\ files.kinds = [plan |-> "missing", state |-> "file", logs |-> "missing"]
    /\ Get(output.async).failures = << <<"logs", "was not found">>, <<"PLAN.md", "was not found">> >>

Reasons(failures) == {failures[j] : j \in 1..Len(failures)}

\* C12: on the same files the two validators both succeed with the same
\* layout or both fail with the same set of reasons, in whatever order the
\* stats of the non-blocking one return.
C12_ValidatorsAgree ==
    (IsSome(output.async) /\ IsSome(output.sync)) =>
        /\ Get(output.async).ok = Get(output.sync).ok
        /\ Get(output.async).layout = Get(output.sync).layout
        /\ Reasons(Get(output.async).failures) = Reasons(Get(output.sync).failures)

\* both have failed, with the same reasons listed in different orders
C12_Witness ==
    /\ IsSome(output.async) /\ IsSome(output.sync)
    /\ ~Get(output.async).ok
    /\ Len(Get(output.async).failures) = 3
    /\ Get(output.async).failures # Get(output.sync).failures

-----------------------------------------------------------------------------
(* SpecDiscover: discoverWorkNodes on a directory tree.  A directory is the *)
(* list of the names that lead to it; input tells which directories hold    *)
(* PLAN.md and STATE.md, which ones cannot be listed, and the root passed.  *)
(* procs holds the call of scanForWorkNodes about to run and the loops of   *)
(* the calls above it, hist the visited set and the discovered map.         *)

IGNORED_DIRECTORY_NAMES == {".git", ".github", "node_modules", "dist", "coverage", "logs"}

TreeDirs ==
    { <<"r">>, <<"r", "logs">>, <<"r", "logs", "logs">>,
      <<"r", "a">>, <<"r", "a", "logs">>, <<"r", "a", "n">>, <<"r", "a", "n", "logs">>,
      <<"r", "dist">>, <<"r", "dist", "logs">>, <<"r", "b">> }

Last(s) == s[Len(s)]
IsPrefix(a, d) == Len(a) <= Len(d) /\ SubSeq(d, 1, Len(a)) = a

MaxPathLength == 6    \* names in a path the walk is followed to

\* a symbolic link: the entry name of directory dir leads to the directory target
SymLink(dir, name, target) == [dir |-> dir, name |-> name, target |-> target]

\* the directory a path leads to once the links on it are followed, as the
\* file system does for stat and readdir
RECURSIVE Resolve(_)
Resolve(dir) ==
    LET on == {i \in 1..Len(dir) :
                  \E l \in input.links : Append(l.dir, l.name) = SubSeq(dir, 1, i)}
    IN  IF on = {} THEN dir
        ELSE LET i == Min(on)
                 l == CHOOSE k \in input.links : Append(k.dir, k.name) = SubSeq(dir, 1, i)
             IN  Resolve(l.target \o SubSeq(dir, i + 1, Len(dir)))

\* the entries of a directory that are directories, and PLAN.md and STATE.md
EntriesOf(real) ==
    {[name |-> Last(e), directory |-> TRUE] :
        e \in {c \in TreeDirs : Len(c) = Len(real) + 1 /\ IsPrefix(real, c)}}
    \cup (IF real \in input.withFiles THEN {[name |-> "PLAN.md", directory |-> FALSE],
                                            [name |-> "STATE.md", directory |-> FALSE]}
          ELSE {})

\* a faulty listing: a link to a directory is reported as a directory, as
\* stat would tell
DirentsFollowingLinks(dir) ==
    EntriesOf(Resolve(dir))
    \cup {[name |-> l.name, directory |-> TRUE] : l \in {k \in input.links : k.dir = Resolve(dir)}}

\* fs.readdir(dir, { withFileTypes: true }): the Dirent of a symbolic link
\* is a link, isDirectory() is false whatever it leads to
Dirents(dir) ==
    EntriesOf(Resolve(dir))
    \cup {[name |-> l.name, directory |-> FALSE] : l \in {k \in input.links : k.dir = Resolve(dir)}}

\* safeReadDir: a listing that fails is an empty listing
safeReadDir(dir) == IF dir \in input.unlistable THEN {} ELSE Dirents(dir)

\* what the stats of validateWorkNodeLayout find under dir
KindsAt(dir) ==
    [plan |-> IF Resolve(dir) \in input.withFiles THEN "file" ELSE "missing",
     state |-> IF Resolve(dir) \in input.withFiles THEN "file" ELSE "missing",
     logs |-> IF Append(Resolve(dir), "logs") \in TreeDirs THEN "directory" ELSE "missing"]

\* the absolute path of a directory as a string
AbsolutePath(dir) == IF dir = <<>> THEN <<>> ELSE <<"/">> \o Join([i \in 1..Len(dir) |-> <<dir[i]>>], <<"/">>)

\* the characters and names that occur in paths, in collation order, and the
\* number of characters of each
CollationOrder == <<"/", "..x", "a", "ab", "b", "dist", "logs", "m", "n", "q", "r">>
NameLength(token) ==
    CASE token = "..x" -> 3 [] token = "ab" -> 2 [] token = "dist" -> 4 [] token = "logs" -> 4
      [] OTHER -> 1
Rank(token) == Min({i \in 1..Len(CollationOrder) : CollationOrder[i] = token} \cup {Len(CollationOrder) + 1})

\* a.localeCompare(b) < 0 on path strings
RECURSIVE PathBefore(_, _)
PathBefore(a, b) ==
    IF b = <<>> THEN FALSE
    ELSE IF a = <<>> THEN TRUE
    ELSE IF Head(a) # Head(b) THEN Rank(Head(a)) < Rank(Head(b))
    ELSE PathBefore(Tail(a), Tail(b))

\* Array.prototype.sort((a, b) => a.root.localeCompare(b.root)) on directories
RECURSIVE SortByRoot(_)
SortByRoot(dirs) ==
    IF dirs = {} THEN <<>>
    ELSE LET first == CHOOSE d \in dirs :
                          \A e \in dirs \ {d} : PathBefore(AbsolutePath(d), AbsolutePath(e))
         IN  <<first>> \o SortByRoot(dirs \ {first})

InitDiscover ==
    /\ input \in {[root |-> r, withFiles |-> f, unlistable |-> u, links |-> {}] :
                     r \in { <<"r">>, <<"r", "a">>, <<"r", "logs">>, <<"r", "dist">> },
                     f \in SUBSET { <<"r">>, <<"r", "logs">>, <<"r", "a">>, <<"r", "a", "n">>,
                                    <<"r", "dist">>, <<"r", "b">> },
                     u \in { {}, { <<"r", "a">> }, { <<"r">> } }}
    /\ procs = [call |-> Some(input.root), stack |-> <<>>]
    /\ hist = [visited |-> {}, discovered |-> {}, validations |-> <<>>]
    /\ output = None
    /\ node = Unused /\ files = Unused /\ clock = 0

\* scanForWorkNodes is entered: the visited check, the validation, the listing
ScanDirectory ==
    /\ IsSome(procs.call)
    /\ IF Get(procs.call) \in hist.visited
       THEN /\ procs' = [procs EXCEPT !.call = None]
            /\ UNCHANGED hist
       ELSE /\ hist' = [visited |-> hist.visited \cup {Get(procs.call)},
                        discovered |-> IF validateWorkNodeLayout(KindsAt(Get(procs.call)))
                                       THEN hist.discovered \cup {Get(procs.call)}
                                       ELSE hist.discovered,
                        validations |-> Append(hist.validations, Get(procs.call))]
            /\ procs' = [call |-> None,
                         stack |-> Append(procs.stack, [dir |-> Get(procs.call),
                                                        entries |-> safeReadDir(Get(procs.call))])]
    /\ UNCHANGED <<input, output, node, files, clock>>

\* the loop over the entries takes its next entry, in the order readdir gave
ScanEntry ==
    /\ procs.call = None /\ procs.stack # <<>>
    /\ Len(Last(procs.stack).dir) < MaxPathLength
    /\ \E entry \in Last(procs.stack).entries :
          procs' = [call |-> IF entry.directory /\ entry.name \notin IGNORED_DIRECTORY_NAMES
                             THEN Some(Append(Last(procs.stack).dir, entry.name))
                             ELSE None,
                    stack |-> [procs.stack EXCEPT ![Len(procs.stack)].entries = @ \ {entry}]]
    /\ UNCHANGED <<input, output, node, files, clock, hist>>

\* the loop is through: scanForWorkNodes returns
ScanReturn ==
    /\ procs.call = None /\ procs.stack # <<>>
    /\ Last(procs.stack).entries = {}
    /\ procs' = [procs EXCEPT !.stack = SubSeq(@, 1, Len(@) - 1)]
    /\ UNCHANGED <<input, output, node, files, clock, hist>>

\* discoverWorkNodes returns the discovered layouts, sorted
DiscoverReturn ==
    /\ procs.call = None /\ procs.stack = <<>> /\ output = None
    /\ output' = Some(SortByRoot(hist.discovered))
    /\ UNCHANGED <<input, node, files, clock, hist, procs>>

NextDiscover == ScanDirectory \/ ScanEntry \/ ScanReturn \/ DiscoverReturn

SpecDiscover == InitDiscover /\ [][NextDiscover]_vars

-----------------------------------------------------------------------------
(* Claims about discovery.                                                  *)

\* the directories at or below the root that no ignored name lies on the way to
ReachableDirs ==
    {d \in TreeDirs : /\ IsPrefix(input.root, d)
                      /\ \A i \in (Len(input.root) + 1)..Len(d) : d[i] \notin IGNORED_DIRECTORY_NAMES}

\* PLAN.md and STATE.md are files in it and it has a logs directory
IsWorkNode(d) == d \in input.withFiles /\ Append(d, "logs") \in TreeDirs

\* C13: discoverWorkNodes returns exactly the directories at or below the
\* root that are reachable without passing an ignored name and that validate
\* (nested ones and ones below directories that do not validate included),
\* each once, sorted by absolute path.
C13_DiscoverExact ==
    IsSome(output) =>
        /\ Range(Get(output)) = {d \in ReachableDirs : IsWorkNode(d)}
        /\ \A i, j \in 1..Len(Get(output)) :
              i < j => PathBefore(AbsolutePath(Get(output)[i]), AbsolutePath(Get(output)[j]))

\* what does hold: the same when every directory on the way can be listed
C13_DiscoverExactListable == input.unlistable = {} => C13_DiscoverExact

\* C14: a directory with an ignored name (logs, .git, .github, node_modules,
\* dist, coverage) is never entered by the walk and never returned, whatever
\* the tree and the root.
C14_IgnoredNeverNodes ==
    /\ \A d \in hist.visited : Last(d) \notin IGNORED_DIRECTORY_NAMES
    /\ IsSome(output) => \A i \in 1..Len(Get(output)) : Last(Get(output)[i]) \notin IGNORED_DIRECTORY_NAMES

\* what does hold: the same for the directories below the root passed
C14_IgnoredBelowRoot ==
    /\ \A d \in hist.visited \ {input.root} : Last(d) \notin IGNORED_DIRECTORY_NAMES
    /\ IsSome(output) =>
          \A i \in 1..Len(Get(output)) :
              Get(output)[i] # input.root => Last(Get(output)[i]) \notin IGNORED_DIRECTORY_NAMES

\* C22: a listing that fails during discoverWorkNodes for another reason
\* than "not found" makes the call fail with that error: discoverWorkNodes
\* returns a result only when every directory it listed could be listed.
C22_ListingFailureSurfaced ==
    IsSome(output) => hist.visited \cap input.unlistable = {}

-----------------------------------------------------------------------------
(* SpecRelations: buildWorkNodeRelations applied to every set of layouts    *)
(* over a few roots, among them a name that is a string prefix of another   *)
(* (a, ab) and a name that begins with two dots.                            *)

RelationRoots ==
    { <<"r">>, <<"r", "a">>, <<"r", "ab">>, <<"r", "a", "n">>, <<"r", "a", "n", "m">>,
      <<"r", "..x">>, <<"q">> }

\* the length of the longest common prefix of two segment lists
CommonLength(a, b) ==
    MaxOf({k \in 0..Min({Len(a), Len(b)}) : SubSeq(a, 1, k) = SubSeq(b, 1, k)})

\* path.relative(from, to) on absolute paths: a ".." for every segment of
\* from behind the common prefix, then the segments of to behind it
PathRelative(from, to) ==
    [i \in 1..(Len(from) - CommonLength(from, to)) |-> ".."]
        \o SubSeq(to, CommonLength(from, to) + 1, Len(to))

\* relative.startsWith(".."), on the string the segments join to
StartsWithDots(relative) == relative # <<>> /\ relative[1] \in {"..", "..x"}

\* isAncestor; path.isAbsolute(relative) is never true for POSIX paths
isAncestor(ancestor, descendant) ==
    LET relative == PathRelative(ancestor, descendant)
    IN  IF relative = <<>> THEN FALSE
        ELSE IF StartsWithDots(relative) THEN FALSE
        ELSE TRUE

\* layout.root.length
RootLength(dir) ==
    LET path == AbsolutePath(dir)
        RECURSIVE Sum(_)
        Sum(i) == IF i = 0 THEN 0 ELSE NameLength(path[i]) + Sum(i - 1)
    IN  Sum(Len(path))

Relation(layout) == [layout |-> layout, parent |-> None, children |-> <<>>]

\* the candidates of one relation, sorted by descending root length (the
\* sort is stable; ancestors of one path never have equal lengths)
RECURSIVE SortByLength(_, _)
SortByLength(relations, candidates) ==
    IF candidates = {} THEN <<>>
    ELSE LET first == Min({i \in candidates :
                              \A j \in candidates :
                                  RootLength(relations[j].layout) <= RootLength(relations[i].layout)})
         IN  <<first>> \o SortByLength(relations, candidates \ {first})

\* the loop over the relations from the i-th on
RECURSIVE LinkFrom(_, _)
LinkFrom(relations, i) ==
    IF i > Len(relations) THEN relations
    ELSE LET candidates == {j \in 1..Len(relations) :
                               j # i /\ isAncestor(relations[j].layout, relations[i].layout)}
             parent == SortByLength(relations, candidates)[1]
         IN  IF candidates = {} THEN LinkFrom(relations, i + 1)
             ELSE LinkFrom([relations EXCEPT
                               ![i].parent = Some(relations[parent].layout),
                               ![parent].children = Append(@, relations[i].layout)],
                           i + 1)

buildWorkNodeRelations(nodes) ==
    LET sorted == SortByRoot(nodes)
    IN  LinkFrom([i \in 1..Len(sorted) |-> Relation(sorted[i])], 1)

InitRelations ==
    /\ input \in {[nodes |-> n] : n \in SUBSET RelationRoots}
    /\ output = Unused
    /\ node = Unused /\ files = Unused /\ clock = 0 /\ hist = Unused /\ procs = Unused

ApplyBuildRelations ==
    /\ output = Unused
    /\ output' = <<buildWorkNodeRelations(input.nodes)>>
    /\ UNCHANGED <<input, node, files, clock, hist, procs>>

NextRelations == ApplyBuildRelations

SpecRelations == InitRelations /\ [][NextRelations]_vars

-----------------------------------------------------------------------------
(* Claims about relations.                                                  *)

ProperPrefix(a, d) == Len(a) < Len(d) /\ SubSeq(d, 1, Len(a)) = a

\* the nearest ancestor of a layout among the others, None when it has none
NearestAncestor(layout, nodes) ==
    LET ancestors == {a \in nodes : ProperPrefix(a, layout)}
    IN  IF ancestors = {} THEN None
        ELSE Some(CHOOSE a \in ancestors : \A b \in ancestors : Len(b) <= Len(a))

\* the layouts reached from a relation by following parent links k times or fewer
RECURSIVE Ancestry(_, _, _)
Ancestry(relations, layout, k) ==
    IF k = 0 THEN {}
    ELSE LET rel == CHOOSE r \in Range(relations) : r.layout = layout
         IN  IF rel.parent = None THEN {}
             ELSE {Get(rel.parent)} \cup Ancestry(relations, Get(rel.parent), k - 1)

RelationsAsClaimed(relations, nodes) ==
    /\ {relations[i].layout : i \in 1..Len(relations)} = nodes
    /\ Len(relations) = Cardinality(nodes)
    /\ \A i \in 1..Len(relations) :
          /\ relations[i].parent = NearestAncestor(relations[i].layout, nodes)
          /\ \A l \in nodes :
                Cardinality({k \in 1..Len(relations[i].children) : relations[i].children[k] = l})
                   = IF NearestAncestor(l, nodes) = Some(relations[i].layout) THEN 1 ELSE 0
          /\ relations[i].layout \notin Ancestry(relations, relations[i].layout, Len(relations))

\* C15: buildWorkNodeRelations gives every layout its nearest filesystem
\* ancestor among the other layouts as parent, or none when there is none;
\* a layout is in the children of P exactly when P is its parent, once; the
\* parent links have no cycle.
C15_NearestAncestor ==
    Applied => RelationsAsClaimed(output[1], input.nodes)

\* what does hold: the same for layouts none of whose names begins with two dots
C15_NearestAncestorPlainNames ==
    (Applied /\ <<"r", "..x">> \notin input.nodes) => RelationsAsClaimed(output[1], input.nodes)

-----------------------------------------------------------------------------
(* SpecUpdate: updateStateEntry called on a WorkState, a few times in a     *)
(* row, with every identity and every combination of changes. The State is  *)
(* any list of rows, one with a repeated identity included; the plan is     *)
(* kept beside it to tell whether the rows still agree with it.             *)

MaxUpdates == 2

UpdateIds == { <<1, <<"1">> >>, <<1, <<"2">> >>, <<2, <<"1">> >> }
UpdateStep(id) == PlanStep(id[1], id[2], <<"a">>, None)
UpdateRows ==
    {StateRow(1, <<"1">>, <<"a">>, "todo", None),
     StateRow(1, <<"1">>, <<"a">>, "in-progress", Some(canonicalLogRelative(UpdateStep(<<1, <<"1">> >>)))),
     StateRow(1, <<"2">>, <<"a">>, "todo", None),
     StateRow(1, <<"2">>, <<"a">>, "done", Some(canonicalLogRelative(UpdateStep(<<1, <<"2">> >>))))}
UpdateStates == SeqsUpTo(UpdateRows, 2)
UpdateChanges ==
    {Changes(st, pl, lb) :
        st \in {None, Some("in-progress"), Some("done")},
        pl \in {None, Some(None), Some(Some(canonicalLogRelative(UpdateStep(<<1, <<"1">> >>))))},
        lb \in {None, Some(<<"b">>)}}

UpdateCall(before, phase, step, changes, ok) ==
    [before |-> before, phase |-> phase, step |-> step, changes |-> changes, ok |-> ok]

InitUpdate ==
    /\ node \in {[plan |-> <<UpdateStep(<<1, <<"1">> >>), UpdateStep(<<1, <<"2">> >>)>>, state |-> st] :
                    st \in UpdateStates}
    /\ hist = None
    /\ clock = 0
    /\ input = Unused /\ output = Unused /\ files = Unused /\ procs = Unused

\* one call; a not-found error is caught by the caller, which may go on
CallUpdateStateEntry ==
    /\ clock < MaxUpdates
    /\ \E id \in UpdateIds, changes \in UpdateChanges :
          \E result \in {updateStateEntry(node.state, id[1], id[2], changes)} :
              /\ node' = [node EXCEPT !.state = result.entries]
              /\ hist' = Some(UpdateCall(node.state, id[1], id[2], changes, result.ok))
    /\ clock' = clock + 1
    /\ UNCHANGED <<input, output, files, procs>>

NextUpdate == CallUpdateStateEntry

SpecUpdate == InitUpdate /\ [][NextUpdate]_vars

-----------------------------------------------------------------------------
(* Claims about updateStateEntry.                                           *)

HasIdentity(row, phase, step) == row.phase = phase /\ row.step = step

\* a row after the changes: the named fields take the given values, the
\* others and the identity stay
ChangedAsNamed(old, new, changes) ==
    /\ new.phase = old.phase /\ new.step = old.step
    /\ new.status = (IF changes.status = None THEN old.status ELSE changes.status[1])
    /\ new.progressLog = (IF changes.progressLog = None THEN old.progressLog ELSE changes.progressLog[1])
    /\ new.label = (IF changes.label = None THEN old.label ELSE changes.label[1])

\* C16: updateStateEntry fails with not-found and leaves every row unchanged
\* when no row has the identity; otherwise it succeeds, whether or not the
\* rows then agree with the plan, changes exactly the named fields of one row
\* with that identity and leaves the other rows, their number and their order
\* unchanged.
C16_UpdateFramed ==
    IsSome(hist) =>
        LET call == Get(hist)
            matching == {i \in 1..Len(call.before) : HasIdentity(call.before[i], call.phase, call.step)}
        IN  IF matching = {}
            THEN ~call.ok /\ node.state = call.before
            ELSE /\ call.ok
                 /\ Len(node.state) = Len(call.before)
                 /\ \E i \in matching :
                       /\ ChangedAsNamed(call.before[i], node.state[i], call.changes)
                       /\ \A j \in 1..Len(call.before) : j # i => node.state[j] = call.before[j]

\* a call that changed the label of the first of two rows, left its Progress
\* Log in place and left the rows in disagreement with the plan
C16_Witness ==
    /\ IsSome(hist) /\ Get(hist).ok
    /\ Len(node.state) = 2
    /\ Get(hist).changes.label # None
    /\ Get(hist).changes.progressLog = None
    /\ node.state[1].progressLog # None
    /\ HasIdentity(node.state[1], Get(hist).phase, Get(hist).step)
    /\ node.state # Get(hist).before
    /\ ensurePlanStateConsistency(node.plan, node.state).kind = "label-mismatch"

-----------------------------------------------------------------------------
(* SpecProgress: `worktree run --complete` invoked again and again on one   *)
(* WorkNode root with no failure and no crash.  The rows start in any of    *)
(* the five statuses, at most one of them in-progress.  input keeps the     *)
(* rows the node started with, output counts the invocations started.  An   *)
(* invocation that is under way goes on until it returns.                   *)

MaxInvocations == 4

ProgressStatuses ==
    {statuses \in [1..3 -> StepStatus] :
        Cardinality({i \in 1..3 : statuses[i] = "in-progress"}) <= 1}

\* the row and the log a step has at the start: a blocked step has a log
\* that says so, a superseded one has none
ProgressRow(i, status) ==
    IF status \in {"blocked", "superseded"}
    THEN StateRow(RunSteps[i].phase, RunSteps[i].step, RunSteps[i].label, status,
                  IF status = "blocked" THEN Some(canonicalLogRelative(RunSteps[i])) ELSE None)
    ELSE RunRow(i, status)
ProgressLog(i, status) ==
    IF status = "blocked" THEN Some(LogTemplate(RunSteps[i], "blocked", 0))
    ELSE IF status = "superseded" THEN None
    ELSE RunLog(i, status)

InitProgress ==
    /\ \E statuses \in ProgressStatuses :
          /\ input = [rows |-> [i \in 1..3 |-> ProgressRow(i, statuses[i])]]
          /\ files = [kinds |-> [plan |-> "file", state |-> "file", logs |-> "directory"],
                      plan |-> RunPlanText,
                      data |-> [f \in RunPaths |->
                                   IF f = StatePath
                                   THEN Some(writeStateText([i \in 1..3 |-> ProgressRow(i, statuses[i])]))
                                   ELSE IF \E i \in 1..3 : f = canonicalLogRelative(RunSteps[i])
                                   THEN ProgressLog(CHOOSE i \in 1..3 : f = canonicalLogRelative(RunSteps[i]),
                                                    statuses[CHOOSE i \in 1..3 :
                                                                 f = canonicalLogRelative(RunSteps[i])])
                                   ELSE None]]
    /\ procs = [p \in RunPids |-> NotRunning]
    /\ output = 0
    /\ node = Unused /\ hist = Unused /\ clock = 0

\* handleRun is entered with --complete
ProgressStart ==
    \E p \in DOMAIN procs :
        /\ output < MaxInvocations
        /\ \A q \in DOMAIN procs : procs[q].pc = "idle"
        /\ procs' = [procs EXCEPT ![p] = [NotRunning EXCEPT !.pc = "validate",
                                                            !.complete = TRUE,
                                                            !.outcome = "running"]]
        /\ hist' = Invocation(files.data, TRUE, <<>>)
        /\ output' = output + 1
        /\ UNCHANGED <<input, node, files, clock>>

NextProgress ==
    \/ ProgressStart \/ RunValidate \/ RunLoad \/ RunLogMkdir \/ RunLogStat \/ RunMarkInProgress
    \/ WriteMkdir \/ WriteOpen \/ WriteContent \/ WriteRename
    \/ RunAfterPersist \/ RunLogRead \/ RunMarkDone \/ RunFinish

\* no invocation stays at this position
NotAt(pc) == \A p \in DOMAIN procs : procs[p].pc # pc

\* every call an invocation awaits returns and the next invocation is made.
\* The steps that parse or rewrite a file (RunLoad, RunLogRead) are enabled
\* exactly at their position and always leave it; their fairness is stated
\* by the position.
NextProgressFair ==
    \/ ProgressStart \/ RunValidate \/ RunLogMkdir \/ RunLogStat \/ RunMarkInProgress
    \/ WriteMkdir \/ WriteOpen \/ WriteContent \/ WriteRename
    \/ RunAfterPersist \/ RunMarkDone \/ RunFinish

SpecProgress ==
    /\ InitProgress /\ [][NextProgress]_vars
    /\ WF_vars(NextProgressFair)
    /\ []<>NotAt("load") /\ []<>NotAt("log-read")

-----------------------------------------------------------------------------
(* Claims about progress.                                                   *)

Actionable(rows) == {i \in 1..Len(rows) : rows[i].status \in {"todo", "in-progress"}}

\* no invocation is under way
Idle == \A p \in DOMAIN procs : procs[p].pc = "idle"

\* all the rows that were actionable at the start are done and the others
\* have the status they had
AllDone(rows) ==
    /\ Len(rows) = Len(input.rows)
    /\ \A i \in 1..Len(rows) :
          /\ buildStepKey(rows[i]) = buildStepKey(input.rows[i])
          /\ rows[i].status = (IF i \in Actionable(input.rows) THEN "done" ELSE input.rows[i].status)

ProgressCounted ==
    LET rows == DiskRows
        k == Cardinality(Actionable(input.rows))
    IN  /\ \A p \in DOMAIN procs : procs[p].outcome \in {"none", "running", "ok", "no-step"}
        /\ Idle =>
              /\ Cardinality(Actionable(rows)) = (IF output < k THEN k - output ELSE 0)
              /\ (output >= k) => AllDone(rows)
              /\ (\E p \in DOMAIN procs : procs[p].outcome = "no-step") <=> (output > k)

\* C20: from a consistent node with k rows todo or in-progress, at most one
\* of them in-progress, `worktree run --complete` invocations without
\* failures leave k - n such rows after n of them, report that no actionable
\* step remains from invocation k + 1 on and not before, and get there; then
\* all k rows are done and every row that was blocked, done or superseded
\* has its original status.
C20_Progress ==
    /\ []ProgressCounted
    /\ <>(Idle /\ Actionable(DiskRows) = {} /\ AllDone(DiskRows)
            /\ output = Cardinality(Actionable(input.rows)))

\* two steps were taken to done in two invocations beside a blocked one, and
\* the third invocation found no actionable step
C20_Witness ==
    /\ Returned("no-step") /\ output = 3
    /\ Cardinality(Actionable(input.rows)) = 2
    /\ \E i \in 1..3 : input.rows[i].status = "blocked" /\ DiskRows[i].status = "blocked"
    /\ \E i \in 1..3 : input.rows[i].status = "in-progress" /\ DiskRows[i].status = "done"

\* C21: across `worktree run --complete` invocations, of two steps that were
\* todo at the start the one that sorts strictly earlier is done first: no
\* row is done while a row sorting before it is not; steps (1,"2"), (1,"10")
\* and (2,"1"), all todo, are done in this order.
C21_CompletionOrder ==
    LET rows == DiskRows
        wasTodo == {i \in 1..Len(input.rows) : input.rows[i].status = "todo"}
    IN  /\ \A i, j \in wasTodo :
              (rows[i].status = "done" /\ compareStepIdentifiers(input.rows[j], input.rows[i]) < 0)
                  => rows[j].status = "done"
        /\ wasTodo = 1..3 =>
              /\ rows[1].status = "done" => rows[2].status = "done"    \* (1,"10") after (1,"2")
              /\ rows[3].status = "done" => rows[1].status = "done"    \* (2,"1") after (1,"10")

\* all three steps were todo; (1,"2") is done, (1,"10") is being completed
\* and (2,"1") is still todo
C21_Witness ==
    /\ \A i \in 1..3 : input.rows[i].status = "todo"
    /\ DiskRows[2].status = "done" /\ buildStepKey(DiskRows[2]) = <<1, <<"2">> >>
    /\ DiskRows[1].status = "in-progress" /\ buildStepKey(DiskRows[1]) = <<1, <<"1", "0">> >>
    /\ DiskRows[3].status = "todo"
    /\ output = 2

-----------------------------------------------------------------------------
(* Claims about the identifier of a finished step.                          *)

\* C23: no call of updateStateEntry changes the phase, step or label of a
\* row whose status is done or superseded.
C23_FinishedIdentifierImmutable ==
    IsSome(hist) =>
        \A i \in 1..Len(Get(hist).before) :
            Get(hist).before[i].status \in {"done", "superseded"} =>
                /\ node.state[i].phase = Get(hist).before[i].phase
                /\ node.state[i].step = Get(hist).before[i].step
                /\ node.state[i].label = Get(hist).before[i].label

\* what does hold: the phase and the step of such a row never change
C23_FinishedKeyImmutable ==
    IsSome(hist) =>
        \A i \in 1..Len(Get(hist).before) :
            Get(hist).before[i].status \in {"done", "superseded"} =>
                buildStepKey(node.state[i]) = buildStepKey(Get(hist).before[i])

-----------------------------------------------------------------------------
(* SpecRerun: `worktree run` invocations that may crash, each crashed one   *)
(* followed by the same command again until it runs to completion.  An      *)
(* invocation crashes between any two calls; no call fails.  hist notes,    *)
(* beside what SpecRun notes, the files found by the first attempt of the   *)
(* command (origin) and whether an attempt of it has crashed.               *)

Attempt(before, complete, origin, crashed) ==
    [before |-> before, complete |-> complete, persisted |-> <<>>,
     origin |-> origin, crashed |-> crashed]

\* the number of STATE.md writes of a whole invocation
FinalWrite(complete) == IF complete THEN 2 ELSE 1

\* the last invocation crashed before its final STATE.md write was in place
Interrupted ==
    /\ hist # Unused
    /\ \E p \in DOMAIN procs : procs[p].outcome = "crashed"
    /\ Len(hist.persisted) < FinalWrite(hist.complete)

InitRerun == InitRun

\* handleRun is entered: after an interrupted invocation with the options it had
RerunStart ==
    \E p \in DOMAIN procs, complete \in BOOLEAN :
        /\ \A q \in DOMAIN procs : procs[q].pc = "idle"
        /\ Interrupted => complete = hist.complete
        /\ procs' = [procs EXCEPT ![p] = [NotRunning EXCEPT !.pc = "validate",
                                                            !.complete = complete,
                                                            !.outcome = "running"]]
        /\ hist' = IF Interrupted THEN Attempt(files.data, complete, hist.origin, TRUE)
                   ELSE Attempt(files.data, complete, files.data, FALSE)
        /\ UNCHANGED <<input, output, node, files, clock>>

NextRerun ==
    \/ RerunStart \/ RunValidate \/ RunLoad \/ RunLogMkdir \/ RunLogStat \/ RunMarkInProgress
    \/ WriteMkdir \/ WriteOpen \/ WriteContent \/ WriteRename
    \/ RunAfterPersist \/ RunLogRead \/ RunMarkDone \/ RunFinish
    \/ RunCrash

SpecRerun == InitRerun /\ [][NextRerun]_vars

-----------------------------------------------------------------------------
(* Claims about crashed and repeated invocations.                           *)

\* the step that was next actionable when the command was first tried
OriginActionable == findNextActionableStep(RowsOf(Get(hist.origin[StatePath])))

\* the rows a single invocation leaves: the selected row has the status and
\* its canonical Progress Log, the other rows are as they were
RowsAfterRun(rows, S, status) ==
    [i \in 1..Len(rows) |->
        IF buildStepKey(rows[i]) = buildStepKey(S)
        THEN [rows[i] EXCEPT !.status = status, !.progressLog = Some(canonicalLogRelative(S))]
        ELSE rows[i]]

\* C25: when `worktree run` has crashed before its final STATE.md write was
\* in place, any number of times, and the same command then runs to
\* completion, the rows of STATE.md and the header status of the selected
\* step's log are those a single invocation leaves, and the log of every
\* other step is as it was.
C25_CrashSafeRerun ==
    Returned("ok") =>
        /\ OriginActionable # None
        /\ LET S == Get(OriginActionable)
               status == IF hist.complete THEN "done" ELSE "in-progress"
               log == files.data[canonicalLogRelative(S)]
           IN  /\ DiskRows = RowsAfterRun(RowsOf(Get(hist.origin[StatePath])), S, status)
               /\ log # None /\ HeaderStatusIs(Get(log), status)
               /\ \A f \in RunLogPaths \ {canonicalLogRelative(S)} : files.data[f] = hist.origin[f]

\* a run with --complete has returned after an earlier attempt had crashed
\* with the step persisted as in-progress and the log header already done
C25_Witness ==
    /\ Returned("ok") /\ hist.complete /\ hist.crashed
    /\ Get(OriginActionable).status = "todo"
    /\ RowFor(RowsOf(Get(hist.before[StatePath])), Get(OriginActionable)).status = "in-progress"
    /\ HeaderStatusIs(Get(hist.before[canonicalLogRelative(Get(OriginActionable))]), "done")

-----------------------------------------------------------------------------
(* SpecCreateRace: two createStepLog calls for the same step, interleaved   *)
(* at their await points, while time passes.  input.variant tells which     *)
(* createStepLog the build has: the one that asks fileExists and writes     *)
(* through atomicWriteFile ("rename"), or the one that creates exclusively  *)
(* ("exclusive").  hist notes the call that returned first and the content  *)
(* it wrote, if it wrote.                                                   *)

RacePids == {1, 2}
RaceStep == RunSteps[1]
RaceLog == canonicalLogRelative(RaceStep)
RacePaths == {RaceLog} \cup {tempPath(RaceLog, tempName(p)) : p \in RacePids}

FirstReturn(p, wrote) == [by |-> p, wrote |-> wrote]

InitCreateRace ==
    /\ input \in {[variant |-> v] : v \in {"rename", "exclusive"}}
    /\ \E existing \in {None, Some(LogTemplate(RaceStep, "blocked", 0))} :
          files = [data |-> [f \in RacePaths |-> IF f = RaceLog THEN existing ELSE None]]
    /\ procs = [p \in RacePids |-> NotRunning]
    /\ hist = None
    /\ clock = 0
    /\ output = Unused /\ node = Unused

\* createStepLog is called: canonicalLogPaths, then mkdir is awaited
RaceCall ==
    \E p \in DOMAIN procs :
        /\ procs[p].pc = "idle" /\ procs[p].outcome = "none"
        /\ procs' = [procs EXCEPT ![p].pc = "c-mkdir", ![p].outcome = "running"]
        /\ UNCHANGED <<input, output, node, files, clock, hist>>

\* the call returns the relative path; the first return is noted
RaceReturn(p, wrote) ==
    /\ Exit(p, "ok")
    /\ hist' = IF hist = None THEN Some(FirstReturn(p, wrote)) ELSE hist

\* mkdir returned: fileExists is awaited, or the template is rendered and
\* writeFile with flag wx is awaited
RaceMkdir ==
    \E p \in DOMAIN procs :
        /\ procs[p].pc = "c-mkdir"
        /\ IF input.variant = "rename" THEN Goto(p, "c-stat")
           ELSE procs' = [procs EXCEPT
                    ![p].pc = "c-open",
                    ![p].write = Some(Write(p, RaceLog, LogTemplate(RaceStep, "in-progress", clock),
                                            "c-open"))]
        /\ UNCHANGED <<input, output, node, files, clock, hist>>

\* fileExists returned: the log exists and createStepLog returns, or the
\* template is rendered and atomicWriteFile is entered
RaceStat ==
    \E p \in DOMAIN procs :
        /\ procs[p].pc = "c-stat"
        /\ IF fileExists(files.data, RaceLog)
           THEN RaceReturn(p, None)
           ELSE /\ procs' = [procs EXCEPT
                       ![p].pc = "w-mkdir",
                       ![p].write = Some(Write(p, RaceLog,
                                               LogTemplate(RaceStep, "in-progress", clock),
                                               "c-written"))]
                /\ UNCHANGED hist
        /\ UNCHANGED <<input, output, node, files, clock>>

\* atomicWriteFile returned: createStepLog returns
RaceWritten ==
    \E p \in DOMAIN procs :
        /\ procs[p].pc = "c-written"
        /\ RaceReturn(p, Some(Get(procs[p].write).contents))
        /\ UNCHANGED <<input, output, node, files, clock>>

\* writeFile with flag wx opens the log: EEXIST when it exists, which is
\* caught and createStepLog returns; else the file is created empty
RaceOpenExclusive ==
    \E p \in DOMAIN procs :
        /\ procs[p].pc = "c-open"
        /\ IF files.data[RaceLog] # None
           THEN RaceReturn(p, None) /\ UNCHANGED files
           ELSE /\ files' = [files EXCEPT !.data[RaceLog] = Some(<<>>)]
                /\ Goto(p, "c-write")
                /\ UNCHANGED hist
        /\ UNCHANGED <<input, output, node, clock>>

\* writeFile: the content reaches the log, at once or a first part first;
\* then createStepLog returns
RaceWriteExclusive ==
    \E p \in DOMAIN procs :
        /\ procs[p].pc = "c-write"
        /\ \/ /\ files.data[RaceLog] = Some(<<>>)
              /\ files' = [files EXCEPT !.data[RaceLog] = Some(FirstPart(Get(procs[p].write).contents))]
              /\ UNCHANGED <<procs, hist>>
           \/ /\ files' = [files EXCEPT !.data[RaceLog] = Some(Get(procs[p].write).contents)]
              /\ RaceReturn(p, Some(Get(procs[p].write).contents))
        /\ UNCHANGED <<input, output, node, clock>>

NextCreateRace ==
    \/ RaceCall \/ RaceMkdir \/ RaceStat \/ RaceWritten \/ RaceOpenExclusive \/ RaceWriteExclusive
    \/ WriteMkdir \/ WriteOpen \/ WriteContent \/ WriteRename
    \/ Tick

SpecCreateRace == InitCreateRace /\ [][NextCreateRace]_vars

-----------------------------------------------------------------------------
(* Claims about concurrent createStepLog calls.                             *)

\* C26: when two createStepLog calls for one step are interleaved, the log
\* content written by the call that returns first is never replaced by the
\* other call.
C26_FirstLogKept ==
    (IsSome(hist) /\ Get(hist).wrote # None) => files.data[RaceLog] = Get(hist).wrote

\* what does hold: the same for the createStepLog that creates exclusively
C26_ExclusiveLogKept == input.variant = "exclusive" => C26_FirstLogKept

-----------------------------------------------------------------------------
(* SpecConcurrent: two `worktree run` invocations, each with or without     *)
(* --complete, interleaved at their await points on one WorkNode root.  No  *)
(* call fails and no process crashes.  The last step of the plan is done,   *)
(* the other two are in any status.  hist notes the STATE.md at the start   *)
(* and the contents of STATE.md renamed into place, in order.               *)

ConcurrentPids == {1, 2}
ConcurrentPaths ==
    {StatePath} \cup RunLogPaths
    \cup {tempPath(f, tempName(p)) : f \in {StatePath} \cup RunLogPaths, p \in ConcurrentPids}

InitConcurrent ==
    /\ \E statuses \in [1..3 -> {"todo", "in-progress", "done"}] :
          /\ Cardinality({i \in 1..3 : statuses[i] = "in-progress"}) <= 1
          /\ statuses[3] = "done"
          /\ files = [kinds |-> [plan |-> "file", state |-> "file", logs |-> "directory"],
                      plan |-> RunPlanText,
                      data |-> [f \in ConcurrentPaths |->
                                   IF f = StatePath
                                   THEN Some(writeStateText([i \in 1..3 |-> RunRow(i, statuses[i])]))
                                   ELSE IF \E i \in 1..3 : f = canonicalLogRelative(RunSteps[i])
                                   THEN RunLog(CHOOSE i \in 1..3 : f = canonicalLogRelative(RunSteps[i]),
                                               statuses[CHOOSE i \in 1..3 :
                                                            f = canonicalLogRelative(RunSteps[i])])
                                   ELSE None]]
          /\ hist = Invocation([f \in {StatePath} |->
                                   Some(writeStateText([i \in 1..3 |-> RunRow(i, statuses[i])]))],
                               FALSE, <<>>)
    /\ procs = [p \in ConcurrentPids |-> NotRunning]
    /\ input = Unused /\ output = Unused /\ node = Unused /\ clock = 0

\* a process enters handleRun, whatever the other one is doing
ConcurrentStart ==
    \E p \in DOMAIN procs, complete \in BOOLEAN :
        /\ procs[p].pc = "idle" /\ procs[p].outcome = "none"
        /\ procs' = [procs EXCEPT ![p] = [NotRunning EXCEPT !.pc = "validate",
                                                            !.complete = complete,
                                                            !.outcome = "running"]]
        /\ UNCHANGED <<input, output, node, files, clock, hist>>

NextConcurrent ==
    \/ ConcurrentStart \/ RunValidate \/ RunLoad \/ RunLogMkdir \/ RunLogStat \/ RunMarkInProgress
    \/ WriteMkdir \/ WriteOpen \/ WriteContent \/ WriteRename
    \/ RunAfterPersist \/ RunLogRead \/ RunMarkDone \/ RunFinish

SpecConcurrent == InitConcurrent /\ [][NextConcurrent]_vars

-----------------------------------------------------------------------------
(* Claims about concurrent invocations.                                     *)

\* the rows STATE.md has had: at the start, then write by write
StateTrail ==
    <<RowsOf(Get(hist.before[StatePath]))>>
        \o [k \in 1..Len(hist.persisted) |-> RowsOf(Get(hist.persisted[k]))]

\* C27: with two invocations interleaved, once STATE.md records a step as
\* done no later write records it as todo or in-progress.
C27_StatusForward ==
    LET trail == StateTrail
    IN  \A i \in 1..3 : \A k, l \in 1..Len(trail) :
            (k < l /\ trail[k][i].status = "done") => trail[l][i].status \notin {"todo", "in-progress"}

\* what does hold: a step that was done before both invocations started stays done
C27_InitiallyDoneStays ==
    LET trail == StateTrail
    IN  \A i \in 1..3 :
            trail[1][i].status = "done" => \A l \in 1..Len(trail) : trail[l][i].status = "done"

\* C28: with two invocations interleaved, STATE.md on disk is at every
\* point the complete serialization of a State, the one found at the start
\* or the one an invocation persisted last, and never has two rows that are
\* in-progress.
C28_WholeStateOnDisk ==
    /\ files.data[StatePath] =
          (IF hist.persisted = <<>> THEN hist.before[StatePath]
           ELSE hist.persisted[Len(hist.persisted)])
    /\ files.data[StatePath] # None
    /\ LET parsed == parseStateText(Get(files.data[StatePath]))
       IN  /\ parsed.ok /\ Len(parsed.rows) = 3
           /\ writeStateText(parsed.rows) = Get(files.data[StatePath])
           /\ InProgressCount(parsed.rows) <= 1
    /\ \A p \in DOMAIN procs :
          procs[p].pc \in {"persisted1", "persisted2"} =>
              Some(writeStateText(procs[p].node.state)) \in Range(hist.persisted)

\* both invocations, one of them with --complete, have persisted the same
\* step as in-progress, one after the other, and returned
C28_Witness ==
    /\ Len(hist.persisted) = 3
    /\ \A p \in DOMAIN procs : procs[p].outcome = "ok"
    /\ LET trail == StateTrail
       IN  \E i \in 1..3 : /\ trail[1][i].status = "todo"
                           /\ trail[2][i].status = "in-progress"
                           /\ trail[3][i].status = "in-progress"

-----------------------------------------------------------------------------
(* SpecCompare: compareStepIdentifiers applied to the pairs of every three  *)
(* identifiers over two phases and steps with one or two segments, among    *)
(* them a leading zero, a trailing zero segment, an empty segment and a     *)
(* segment that is not a number.                                            *)

CompareSteps ==
    { <<"2">>, <<"1", "0">>, <<"2", ".", "1">>, <<"2", ".", "1", "0">>, <<"2", ".", "0">>,
      <<"0", "2">>, <<"x">>, <<"0">>, <<"2", ".">>, <<"2", ".", "x">> }
CompareIds == {[phase |-> ph, step |-> st, label |-> <<"a">>] : ph \in {1, 2}, st \in CompareSteps}

InitCompare ==
    /\ input \in {[a |-> a, b |-> b, c |-> c] : a \in CompareIds, b \in CompareIds, c \in CompareIds}
    /\ output = Unused
    /\ node = Unused /\ files = Unused /\ clock = 0 /\ hist = Unused /\ procs = Unused

ApplyCompare ==
    /\ output = Unused
    /\ output' = <<[ab |-> compareStepIdentifiers(input.a, input.b),
                    ba |-> compareStepIdentifiers(input.b, input.a),
                    bc |-> compareStepIdentifiers(input.b, input.c),
                    ac |-> compareStepIdentifiers(input.a, input.c)]>>
    /\ UNCHANGED <<input, node, files, clock, hist, procs>>

NextCompare == ApplyCompare

SpecCompare == InitCompare /\ [][NextCompare]_vars

-----------------------------------------------------------------------------
(* Claims about the comparator.                                             *)

Sign(n) == IF n < 0 THEN -1 ELSE IF n > 0 THEN 1 ELSE 0

\* a segment as an integer: a run of digits is its value, anything else is 0
SegmentValue(segment) ==
    IF segment # <<>> /\ \A i \in 1..Len(segment) : segment[i] \in Digits
    THEN DecimalValue(segment) ELSE 0

\* the segments of a step as integers, padded with zeros to n segments
PaddedSegments(step, n) ==
    LET segments == Split(step, ".")
    IN  [i \in 1..n |-> IF i <= Len(segments) THEN SegmentValue(segments[i]) ELSE 0]

\* the first position where two sequences of one length differ, 0 if none
FirstDifference(s, t) ==
    LET at == {i \in 1..Len(s) : s[i] # t[i]}
    IN  IF at = {} THEN 0 ELSE Min(at)

\* the sign the claimed order gives a against b
ClaimedSign(a, b) ==
    IF a.phase # b.phase THEN Sign(a.phase - b.phase)
    ELSE LET s == PaddedSegments(a.step, 3)
             t == PaddedSegments(b.step, 3)
             d == FirstDifference(s, t)
         IN  IF d = 0 THEN 0 ELSE Sign(s[d] - t[d])

\* C29: compareStepIdentifiers is a consistent ordering: the sign of
\* compare(a, b) is the opposite of the sign of compare(b, a); it is
\* transitive; a smaller phase sorts first; within a phase the segments are
\* compared as integers left to right, a missing or non-numeric segment read
\* as 0, so that "2.1" sorts before "2.10" and "2" before "10" and the result
\* is 0 exactly when the zero-padded segment sequences are equal.
C29_ConsistentOrder ==
    Applied =>
        LET r == output[1]
        IN  /\ Sign(r.ab) = -Sign(r.ba)
            /\ (r.ab <= 0 /\ r.bc <= 0) => r.ac <= 0
            /\ (r.ab <= 0 /\ r.bc <= 0 /\ (r.ab < 0 \/ r.bc < 0)) => r.ac < 0
            /\ input.a.phase < input.b.phase => r.ab < 0
            /\ Sign(r.ab) = ClaimedSign(input.a, input.b)
            /\ (r.ab = 0) <=> (input.a.phase = input.b.phase
                                 /\ PaddedSegments(input.a.step, 3) = PaddedSegments(input.b.step, 3))
            /\ (input.a.phase = input.b.phase /\ input.a.step = <<"2", ".", "1">>
                  /\ input.b.step = <<"2", ".", "1", "0">>) => r.ab < 0
            /\ (input.a.phase = input.b.phase /\ input.a.step = <<"2">>
                  /\ input.b.step = <<"1", "0">>) => r.ab < 0

\* "2" against "2.1" against "2.10" in one phase, each before the next
C29_Witness ==
    /\ Applied
    /\ input.a.phase = 1 /\ input.b.phase = 1 /\ input.c.phase = 1
    /\ input.a.step = <<"2">> /\ input.b.step = <<"2", ".", "1">>
    /\ input.c.step = <<"2", ".", "1", "0">>
    /\ output[1].ab < 0 /\ output[1].bc < 0 /\ output[1].ac < 0

-----------------------------------------------------------------------------
(* SpecFacade: the operations of one WorkNode called one after another,     *)
(* createLogForStep and updateLogForStep also with a step the State has no  *)
(* row for.  hist keeps the latest call: its name, whether it returned or   *)
(* threw, the step it was given, and the WorkNode and the files before it.  *)

FacadeSteps == {NodeStepA, NodeStepB, ForeignStep}
FacadeLogNames == {canonicalLogName(st) : st \in FacadeSteps}
FacadePlanText ==
    Join(<< <<"#", " ", "Plan">>, DeclarationLine(NodeStepA), <<" ", " ", "-", " ", "d">>,
            DeclarationLine(NodeStepB), <<>> >>, <<"\n">>)

FacadeCall(name, ok, step, before, disk) ==
    [op |-> name, ok |-> ok, step |-> step, before |-> before, disk |-> disk]

InitFacade ==
    /\ files \in {[kinds |-> [plan |-> "file", state |-> "file", logs |-> "directory"],
                   plan |-> FacadePlanText, state |-> st,
                   logs |-> [n \in FacadeLogNames |-> None]] : st \in NodeStateTexts}
    /\ node = Unused
    /\ hist = FacadeCall("none", TRUE, None, Unused, Unused)
    /\ input = Unused /\ output = Unused /\ clock = 0 /\ procs = Unused

FacadeLoad ==
    /\ \E result \in {WorkNodeLoad(files)} :
          /\ node' = result.node
          /\ hist' = FacadeCall("load", result.ok, None, node, files)
    /\ UNCHANGED <<input, output, files, clock, procs>>

\* refreshState: this.state is assigned after parseState and the check returned
FacadeRefreshState ==
    /\ node # Unused
    /\ \E result \in {refreshState(node, files)} :
          /\ node' = IF result.ok THEN result.node ELSE node
          /\ hist' = FacadeCall("refreshState", result.ok, None, node, files)
    /\ UNCHANGED <<input, output, files, clock, procs>>

\* createLogForStep: createStepLog, then updateStateEntry with the path
FacadeCreateLogForStep ==
    /\ node # Unused
    /\ \E st \in FacadeSteps :
          \E logs \in {createStepLog(files.logs, st, "in-progress", clock)} :
             LET updated == updateStateEntry(node.state, st.phase, st.step,
                                Changes(None, Some(Some(canonicalLogRelative(st))), None))
             IN  /\ files' = [files EXCEPT !.logs = logs]
                 /\ node' = [node EXCEPT !.state = updated.entries]
                 /\ hist' = FacadeCall("createLogForStep", updated.ok, Some(st), node, files)
    /\ UNCHANGED <<input, output, clock, procs>>

\* updateLogForStep: updateLogHeader on the canonical log; reading a log that
\* does not exist fails
FacadeUpdateLogForStep ==
    /\ node # Unused
    /\ \E st \in FacadeSteps, updates \in NodeLogUpdates :
          IF IsSome(files.logs[canonicalLogName(st)])
          THEN /\ files' = [files EXCEPT !.logs = updateLogHeader(@, canonicalLogName(st), updates)]
               /\ hist' = FacadeCall("updateLogForStep", TRUE, Some(st), node, files)
          ELSE /\ hist' = FacadeCall("updateLogForStep", FALSE, Some(st), node, files)
               /\ UNCHANGED files
    /\ UNCHANGED <<input, output, node, clock, procs>>

FacadePersistState ==
    /\ node # Unused
    /\ files' = [files EXCEPT !.state = writeStateText(node.state)]
    /\ hist' = FacadeCall("persistState", TRUE, None, node, files)
    /\ UNCHANGED <<input, output, node, clock, procs>>

\* STATE.md rewritten by hand or by another tool
FacadeEditStateFile ==
    /\ \E text \in NodeStateTexts : files' = [files EXCEPT !.state = text]
    /\ hist' = FacadeCall("edit", TRUE, None, node, files)
    /\ UNCHANGED <<input, output, node, clock, procs>>

NextFacade ==
    \/ FacadeLoad \/ FacadeRefreshState \/ FacadeCreateLogForStep
    \/ FacadeUpdateLogForStep \/ FacadePersistState \/ FacadeEditStateFile

SpecFacade == InitFacade /\ [][NextFacade]_vars

-----------------------------------------------------------------------------
(* Claims about createLogForStep, updateLogForStep and refreshState.        *)

\* logs/p<phase>-s<step>.md, written out token by token
ForwardSlashLogPath(st) ==
    <<"logs", "/", "p">> \o NumberToString(st.phase) \o <<"-", "s">> \o st.step \o <<".md">>

HasRow(entries, st) == \E i \in 1..Len(entries) : entries[i].phase = st.phase /\ entries[i].step = st.step

\* C31: createLogForStep on a step that has a State row sets that row's
\* progressLog to logs/p<phase>-s<step>.md with forward slashes, changes no
\* other field and no other row of the in-memory State, and leaves STATE.md
\* on disk as it was.
C31_CreateLogFramed ==
    (hist.op = "createLogForStep" /\ HasRow(hist.before.state, Get(hist.step))) =>
        LET st == Get(hist.step)
            before == hist.before.state
        IN  /\ hist.ok
            /\ Len(node.state) = Len(before)
            /\ \A i \in 1..Len(before) :
                  IF before[i].phase = st.phase /\ before[i].step = st.step
                  THEN node.state[i] = [before[i] EXCEPT !.progressLog = Some(ForwardSlashLogPath(st))]
                  ELSE node.state[i] = before[i]
            /\ node.plan = hist.before.plan
            /\ files.state = hist.disk.state /\ files.plan = hist.disk.plan

\* a log was created for the second step of a State whose first step is
\* in-progress, and STATE.md still shows no log
C31_Witness ==
    /\ hist.op = "createLogForStep" /\ hist.ok
    /\ Get(hist.step) = NodeStepB
    /\ Len(node.state) = 2
    /\ node.state[1].status = "in-progress" /\ node.state[1].progressLog = None
    /\ node.state[2].progressLog = Some(<<"logs", "/", "p", "1", "-", "s", "2", ".md">>)
    /\ hist.before.state[2].progressLog = None
    /\ parseStateText(files.state).rows[2].progressLog = None
    /\ IsSome(files.logs[canonicalLogName(NodeStepB)])

\* C32: when createLogForStep fails because the step has no row in the owned
\* State, the in-memory State is unchanged and no log file has been created
\* for that step.
C32_CreateLogAllOrNothing ==
    (hist.op = "createLogForStep" /\ ~hist.ok) =>
        /\ ~HasRow(hist.before.state, Get(hist.step))
        /\ node = hist.before
        /\ files.logs[canonicalLogName(Get(hist.step))]
              = hist.disk.logs[canonicalLogName(Get(hist.step))]

\* what does hold of the failed call: the in-memory State and STATE.md are
\* as they were
C32_FailedCreateKeepsState ==
    (hist.op = "createLogForStep" /\ ~hist.ok) =>
        /\ ~HasRow(hist.before.state, Get(hist.step))
        /\ node = hist.before
        /\ files.state = hist.disk.state

\* C33: updateLogForStep delegates to updateLogHeader on the step's
\* canonical log and then updates the owned State so that the step's
\* progressLog equals the canonical relative log path.
C33_UpdateLogRecordsPath ==
    (hist.op = "updateLogForStep" /\ hist.ok /\ HasRow(hist.before.state, Get(hist.step))) =>
        LET st == Get(hist.step)
        IN  /\ \E updates \in NodeLogUpdates :
                  files.logs = updateLogHeader(hist.disk.logs, canonicalLogName(st), updates)
            /\ \A i \in 1..Len(node.state) :
                  (node.state[i].phase = st.phase /\ node.state[i].step = st.step)
                  => node.state[i].progressLog = Some(ForwardSlashLogPath(st))

\* what does hold: the header of the canonical log is updated and the owned
\* State is the one before the call
C33_UpdateLogLeavesState ==
    (hist.op = "updateLogForStep" /\ hist.ok) =>
        /\ \E updates \in NodeLogUpdates :
              files.logs = updateLogHeader(hist.disk.logs, canonicalLogName(Get(hist.step)), updates)
        /\ node = hist.before

\* C34: refreshState replaces the owned State only on success: when STATE.md
\* holds an invalid status or its rows do not match the owned Plan, the call
\* fails and the owned State is the one before the call; otherwise the call
\* succeeds and the owned State is the parsed one.
C34_RefreshOnlyOnSuccess ==
    hist.op = "refreshState" =>
        LET parsed == parseStateText(hist.disk.state)
        IN  IF parsed.ok /\ PlanStateMatch(hist.before.plan, parsed.rows)
            THEN hist.ok /\ node = WorkNode(hist.before.plan, parsed.rows)
            ELSE ~hist.ok /\ node = hist.before

\* a refreshState that failed on a STATE.md with an unexpected row, the owned
\* State holding a log path STATE.md does not show
C34_Witness ==
    /\ hist.op = "refreshState" /\ ~hist.ok
    /\ parseStateText(files.state).ok
    /\ Len(parseStateText(files.state).rows) = 3
    /\ Len(node.state) = 2
    /\ IsSome(node.state[1].progressLog)

\* a refreshState that failed on a STATE.md with a status outside the valid set
C34_WitnessInvalidStatus ==
    /\ hist.op = "refreshState" /\ ~hist.ok
    /\ ~parseStateText(files.state).ok
    /\ node # Unused /\ node = hist.before

-----------------------------------------------------------------------------
(* SpecHeaderTwice: updateLogHeader called twice with the same update on    *)
(* one log: a log as createStepLog and updateLogHeader leave it, or a log   *)
(* whose header a worker wrote or rearranged by hand.  hist keeps the       *)
(* content after the first call.                                            *)

HandWrittenLogs ==
    { <<"x", "\n">>,
      Join(<< <<"#", " ", "x">>, <<"started:", " ", "T", "0">>, <<"completed:">>,
              <<"status:", " ", "in-progress">>, <<>>, <<"## Scope">>, <<"a">> >>, <<"\n">>),
      Join(<< <<"#", " ", "x">>, <<"status:">>, <<"started:", " ", "T", "0">>,
              <<>>, <<"## Scope">>, <<"a">> >>, <<"\n">>),
      Join(<< <<"#", " ", "x">>, <<"status:", " ", "blocked">>, <<"completed:">>, <<>> >>, <<"\n">>) }

InitHeaderTwice ==
    /\ input \in {[contents |-> c, updates |-> u] :
                     c \in LogContents \cup HandWrittenLogs, u \in HeaderUpdates}
    /\ files = [log |-> input.contents]
    /\ output = <<>>
    /\ hist = None
    /\ node = Unused /\ clock = 0 /\ procs = Unused

\* updateLogHeader: nothing is read or written when neither field is given
UpdateLogHeaderOnce ==
    /\ Len(output) < 2
    /\ output' = Append(output, "returned")
    /\ files' = IF ~IsSome(input.updates.status) /\ ~IsSome(input.updates.completed)
                THEN files
                ELSE [files EXCEPT !.log = updatedLogContents(files.log, input.updates)]
    /\ hist' = IF output = <<>> THEN Some(files'.log) ELSE hist
    /\ UNCHANGED <<input, node, clock, procs>>

NextHeaderTwice == UpdateLogHeaderOnce

SpecHeaderTwice == InitHeaderTwice /\ [][NextHeaderTwice]_vars

-----------------------------------------------------------------------------
(* Claims about repeating a header update.                                  *)

NoFieldGiven == ~IsSome(input.updates.status) /\ ~IsSome(input.updates.completed)

\* C35: updateLogHeader is idempotent: for every log content and every
\* update, the content after the same update was applied twice is the
\* content after it was applied once, and an update with neither field
\* given leaves the content untouched.
C35_HeaderIdempotent ==
    /\ (Len(output) = 2) => files.log = Get(hist)
    /\ (Len(output) >= 1 /\ NoFieldGiven) => files.log = input.contents

\* what does hold: the update is idempotent on the logs createStepLog and
\* updateLogHeader leave, whatever a worker wrote below the header, and an
\* update with neither field given changes nothing
C35_HeaderIdempotentOnWrittenLogs ==
    /\ (Len(output) = 2 /\ input.contents \in LogContents) => files.log = Get(hist)
    /\ (Len(output) >= 1 /\ NoFieldGiven) => files.log = input.contents

-----------------------------------------------------------------------------
(* Claims about the reach of one run.                                       *)

\* rows that are those of before, in their order, but for the row of key,
\* which may have another status and progressLog
SameButFor(rows, before, key) ==
    /\ Len(rows) = Len(before)
    /\ \A i \in 1..Len(before) :
          IF IsSome(key) /\ buildStepKey(before[i]) = buildStepKey(Get(key))
          THEN /\ rows[i].phase = before[i].phase /\ rows[i].step = before[i].step
               /\ rows[i].label = before[i].label
          ELSE rows[i] = before[i]

\* C36: one `worktree run` acts on one step: the rows of STATE.md during and
\* after the run, and of every STATE.md it persisted, are the rows it found,
\* in their order, except for the status and progressLog of the step it
\* selected; PLAN.md is as it was; with no actionable step no row changes.
C36_OneStepPerRun ==
    hist # Unused =>
        LET before == RowsOf(Get(hist.before[StatePath]))
            selected == findNextActionableStep(before)
        IN  /\ SameButFor(DiskRows, before, selected)
            /\ \A k \in 1..Len(hist.persisted) :
                  SameButFor(RowsOf(Get(hist.persisted[k])), before, selected)
            /\ files.plan = RunPlanText

\* a run with --complete has returned: the second of three rows, the
\* earliest todo, went to done and the rows around it are as they were
C36_Witness ==
    /\ Returned("ok") /\ hist.complete /\ Len(hist.persisted) = 2
    /\ LET before == RowsOf(Get(hist.before[StatePath]))
           rows == DiskRows
       IN  /\ before[1].status = "todo" /\ before[2].status = "todo" /\ before[3].status = "todo"
           /\ rows[1] = before[1] /\ rows[3] = before[3]
           /\ rows[2].status = "done" /\ IsSome(rows[2].progressLog)

-----------------------------------------------------------------------------
(* SpecDiscoverLinks: discoverWorkNodes on a tree with symbolic links: one  *)
(* that leads back to the root from below (a cycle), one that leads to a    *)
(* directory that is also reached directly, one that leads to a sibling.    *)
(* The root passed may itself lie behind a link.  Every call and every loop *)
(* step that can be taken is taken eventually.                              *)

TreeLinks ==
    { SymLink(<<"r", "a", "n">>, "m", <<"r">>),
      SymLink(<<"r", "b">>, "q", <<"r", "a">>),
      SymLink(<<"r">>, "ab", <<"r", "b">>) }

InitDiscoverLinks ==
    /\ input \in {[root |-> r, withFiles |-> f, unlistable |-> {}, links |-> l] :
                     r \in { <<"r">>, <<"r", "a">>, <<"r", "b">>, <<"r", "b", "q">> },
                     f \in SUBSET { <<"r">>, <<"r", "a">>, <<"r", "a", "n">> },
                     l \in SUBSET TreeLinks}
    /\ procs = [call |-> Some(input.root), stack |-> <<>>]
    /\ hist = [visited |-> {}, discovered |-> {}, validations |-> <<>>]
    /\ output = None
    /\ node = Unused /\ files = Unused /\ clock = 0

SpecDiscoverLinks == InitDiscoverLinks /\ [][NextDiscover]_vars /\ WF_vars(NextDiscover)

-----------------------------------------------------------------------------
(* Claims about discovery among symbolic links.                             *)

\* no path was validated twice, and no directory by two paths that lead to it
ValidatedOnce ==
    \A i, j \in 1..Len(hist.validations) :
        i # j => /\ hist.validations[i] # hist.validations[j]
                 /\ Resolve(hist.validations[i]) # Resolve(hist.validations[j])

\* C37: discoverWorkNodes terminates on every finite directory structure,
\* links that form a cycle or give a directory several routes included, and
\* validates the layout of each resolved directory path at most once.
C37_DiscoveryTerminates == ([]ValidatedOnce) /\ <>IsSome(output)

\* the walk from /r has returned with both the link back to /r and the link
\* from /r/b to /r/a in the tree, the directories that hold them visited
C37_Witness ==
    /\ IsSome(output)
    /\ input.root = <<"r">> /\ input.links = TreeLinks
    /\ {<<"r", "a", "n">>, <<"r", "b">>} \subseteq hist.visited
    /\ <<"r", "a">> \in Range(Get(output))

-----------------------------------------------------------------------------
(* SpecParsePlan: parsePlanLines applied to every text of up to             *)
(* MaxPlanLines lines drawn from declarations, bullets, a blank line and a  *)
(* line of prose.                                                           *)

MaxPlanLines == 4

PlanDeclarationA == <<"-", " ", "Step", " ", "1", ".", "1", ":", " ", "a">>
PlanDeclarationB == <<" ", "-", " ", "step", " ", "1", ".", "2", ".", "1", ":", " ", "b", " ">>
PlanBulletD == <<" ", " ", "-", " ", "d">>
PlanBulletE == <<"-", " ", " ", "e", " ", "f", " ">>
PlanBulletStep == <<" ", " ", "-", " ", "Step", " ", "back">>
PlanBulletStepWide == <<"-", " ", " ", "Step", " ", "back">>

PlanDeclarations == {PlanDeclarationA, PlanDeclarationB}
PlanBullets == {PlanBulletD, PlanBulletE, PlanBulletStep, PlanBulletStepWide}
PlanLines == PlanDeclarations \cup PlanBullets \cup { <<>>, <<"x">> }

InitParsePlan ==
    /\ input \in {[lines |-> l] : l \in SeqsUpTo(PlanLines, MaxPlanLines)}
    /\ output = Unused
    /\ node = Unused /\ files = Unused /\ clock = 0 /\ hist = Unused /\ procs = Unused

ApplyParsePlan ==
    /\ output = Unused
    /\ output' = <<parsePlanLines(input.lines)>>
    /\ UNCHANGED <<input, node, files, clock, hist, procs>>

NextParsePlan == ApplyParsePlan

SpecParsePlan == InitParsePlan /\ [][NextParsePlan]_vars

-----------------------------------------------------------------------------
(* Claims about parsePlan.                                                  *)

\* what each line of the universe declares or lists, read off the line
DeclaredStep(line) ==
    IF line = PlanDeclarationA THEN [phase |-> 1, step |-> <<"1">>, label |-> <<"a">>]
    ELSE [phase |-> 1, step |-> <<"2", ".", "1">>, label |-> <<"b">>]
BulletText(line) ==
    CASE line = PlanBulletD -> <<"d">>
      [] line = PlanBulletE -> <<"e", " ", "f">>
      [] OTHER -> <<"Step", " ", "back">>

\* the items of s at the positions in at, in order
RECURSIVE Pick(_, _)
Pick(s, at) ==
    IF at = {} THEN <<>> ELSE <<s[Min(at)]>> \o Pick(s, at \ {Min(at)})

\* the steps a text declares, each with the bullets of kind between it and
\* the next declaration
DeclaredWith(lines, kind) ==
    LET declared == {i \in 1..Len(lines) : lines[i] \in PlanDeclarations}
        positions == Pick([i \in 1..Len(lines) |-> i], declared)
        until(k) == IF k < Len(positions) THEN positions[k + 1] ELSE Len(lines) + 1
        bullets(k) == Pick(lines, {i \in (positions[k] + 1)..(until(k) - 1) : lines[i] \in kind})
    IN  [k \in 1..Len(positions) |->
            [phase |-> DeclaredStep(lines[positions[k]]).phase,
             step |-> DeclaredStep(lines[positions[k]]).step,
             label |-> DeclaredStep(lines[positions[k]]).label,
             details |-> IF bullets(k) = <<>> THEN None
                         ELSE Some([i \in 1..Len(bullets(k)) |-> BulletText(bullets(k)[i])])]]

\* C38: parsePlan yields one PlanStep per declaration line in source order,
\* each with exactly the bulleted lines that are not declarations between it
\* and the next declaration (or the end), trimmed and in source order; a
\* step without such bullets has no details; bullets before the first
\* declaration belong to no step.
C38_DetailsExact ==
    Applied => output[1] = DeclaredWith(input.lines, PlanBullets)

\* what does hold: the same but for the bullets whose text begins with the
\* word Step one blank behind the dash, which are attached to no step
C38_DetailsButStepBullets ==
    Applied => output[1] = DeclaredWith(input.lines, PlanBullets \ {PlanBulletStep})

-----------------------------------------------------------------------------
(* SpecParseState: parseStateRows applied to every table of up to           *)
(* MaxStateLines lines drawn from the header, the separator, rows as        *)
(* writeState writes them, a row with a status outside the valid set, and   *)
(* rows that are no table rows of five cells.                               *)

MaxStateLines == 4

StateRowA == StateRow(1, <<"1">>, <<"a">>, "todo", None)
StateRowB == StateRow(1, <<"2">>, <<"b">>, "done", Some(<<"logs", "/", "p1-s2.md">>))
StateLineBadStatus == <<"|", " ", "1", " ", "|", " ", "3", " ", "|", " ", "c", " ", "|", " ", "wip", " ", "|", " ", "-", " ", "|">>
StateLineFourCells == <<"|", " ", "1", " ", "|", " ", "3", " ", "|", " ", "c", " ", "|", " ", "todo", " ", "|">>
StateLineFourCellsBadStatus == <<"|", " ", "1", " ", "|", " ", "3", " ", "|", " ", "c", " ", "|", " ", "wip", " ", "|">>
StateLineSixCells == <<"|", " ", "1", " ", "|", " ", "3", " ", "|", " ", "c", "|", "d", " ", "|", " ", "todo", " ", "|", " ", "-", " ", "|">>

WellFormedStateLines == {StateRowLine(StateRowA), StateRowLine(StateRowB)}
MalformedStateLines == {StateLineFourCells, StateLineFourCellsBadStatus, StateLineSixCells}
StateLines ==
    {StateHeaderLine, StateSeparatorLine, StateLineBadStatus}
    \cup WellFormedStateLines \cup MalformedStateLines

InitParseState ==
    /\ input \in {[lines |-> l] : l \in SeqsUpTo(StateLines, MaxStateLines)}
    /\ output = Unused
    /\ node = Unused /\ files = Unused /\ clock = 0 /\ hist = Unused /\ procs = Unused

ApplyParseState ==
    /\ output = Unused
    /\ output' = <<parseStateRows(input.lines)>>
    /\ UNCHANGED <<input, node, files, clock, hist, procs>>

NextParseState == ApplyParseState

SpecParseState == InitParseState /\ [][NextParseState]_vars

-----------------------------------------------------------------------------
(* Claims about parseState.                                                 *)

HasLine(kind) == \E i \in 1..Len(input.lines) : input.lines[i] \in kind

\* the rows the well-formed lines of the table stand for, in order
WrittenRows ==
    LET at == {i \in 1..Len(input.lines) : input.lines[i] \in WellFormedStateLines}
        picked == Pick(input.lines, at)
    IN  [k \in 1..Len(picked) |-> IF picked[k] = StateRowLine(StateRowA) THEN StateRowA ELSE StateRowB]

\* C39: parseState fails fast on a bad status: a data row with a status
\* outside the valid set aborts the parse, no rows are returned and no
\* status is substituted; and no malformed data row is silently dropped or
\* repaired: a parse that succeeds returns a row for every data row.
C39_FailFast ==
    Applied =>
        /\ HasLine({StateLineBadStatus}) => (~output[1].ok /\ output[1].rows = <<>>)
        /\ output[1].ok => (~HasLine(MalformedStateLines) /\ output[1].rows = WrittenRows)

\* what does hold: a five-cell row with a status outside the valid set
\* aborts the parse with no rows; otherwise the rows of the five-cell lines
\* are returned, in order, and every other line is passed over
C39_FailFastOnTableRows ==
    Applied =>
        IF HasLine({StateLineBadStatus})
        THEN ~output[1].ok /\ output[1].rows = <<>> /\ output[1].badStatus = Some(<<"wip">>)
        ELSE output[1].ok /\ output[1].rows = WrittenRows

-----------------------------------------------------------------------------
(* SpecAncestor: isAncestor applied to every pair of paths over a few       *)
(* roots: equal paths, a name that is a string prefix of another (a, ab),   *)
(* descendants one and more levels down, and a directory whose name begins  *)
(* with two dots.                                                           *)

AncestorPaths ==
    RelationRoots \cup { <<"r", "..x", "n">>, <<"r", "ab", "n">>, <<"q", "a">> }

InitAncestor ==
    /\ input \in {[ancestor |-> a, descendant |-> d] : a \in AncestorPaths, d \in AncestorPaths}
    /\ output = Unused
    /\ node = Unused /\ files = Unused /\ clock = 0 /\ hist = Unused /\ procs = Unused

ApplyIsAncestor ==
    /\ output = Unused
    /\ output' = <<isAncestor(input.ancestor, input.descendant)>>
    /\ UNCHANGED <<input, node, files, clock, hist, procs>>

NextAncestor == ApplyIsAncestor

SpecAncestor == InitAncestor /\ [][NextAncestor]_vars

-----------------------------------------------------------------------------
(* Claims about isAncestor.                                                 *)

\* C40: isAncestor(a, d) is true exactly when the path segments of a are a
\* proper prefix of the path segments of d: never for equal paths, never
\* for a mere string prefix, always for a real descendant whatever its
\* directory name is, a name that begins with two dots included.
C40_ProperSegmentPrefix ==
    Applied => (output[1] <=> ProperPrefix(input.ancestor, input.descendant))

\* what does hold: the same when the first name below the ancestor does not
\* begin with two dots; and the answer is never yes without a proper prefix
C40_ProperSegmentPrefixPlainNames ==
    Applied =>
        /\ output[1] => ProperPrefix(input.ancestor, input.descendant)
        /\ (ProperPrefix(input.ancestor, input.descendant)
              /\ input.descendant[Len(input.ancestor) + 1] # "..x") => output[1]

====
